---- MODULE Spec2Model ----
(***************************************************************************)
(* Model of the local file server of autogluon-mcp-client                  *)
(* (src/local_server.py): the process-wide cache data_cache, the tools     *)
(* prepare_local_folder, get_cached_data and clear_cache that insert into, *)
(* read and evict it, the wall clock datetime.now() they read, the tools   *)
(* explore_directory and read_credentials, and the unified proxy of        *)
(* src/proxy_server.py in front of the local and the remote server.        *)
(*                                                                         *)
(* Every tool is an `async def` without an await in its body, so one call  *)
(* runs to completion on the event loop: one action per call.              *)
(***************************************************************************)
EXTENDS Integers, Sequences, FiniteSets, TLC

VARIABLES
    now,          \* the value datetime.now() returns, in ticks (naive local wall clock)
    data_cache,   \* local_server.data_cache: cache_id -> entry
    result,       \* the call that ran in the last step and the dict it returned
    issued,       \* history: the cache ids successful prepare_local_folder
                  \* calls have returned so far
    denied,       \* the directories whose listing raises PermissionError
    home,         \* the credentials files that exist: path -> text
    net,          \* the proxy's backends: which are reachable, what was forwarded
    disk,         \* the files read_local_file, validate_dataset and
                  \* save_download_locally see, and whether pandas can be imported
    client,       \* MCPClient.client of src/mcp_client.py
    loop          \* the event loop of the local server: the calls in progress

vars == <<now, data_cache, result, issued, denied, home, net, disk, client, loop>>

-----------------------------------------------------------------------------
(* Time.  datetime has microsecond resolution; the model keeps             *)
(* TicksPerSecond ticks per second so that sub-second ages exist.          *)

TicksPerSecond == 2

cache_timeout == 3600

SecondsPerDay == 24 * 60 * 60

\* How many whole days past the first one the clock may reach.
MaxDays == 1

\* How many successful prepare_local_folder calls one run may make.
MaxPrepares == 2

TTL == cache_timeout * TicksPerSecond

Day == SecondsPerDay * TicksPerSecond

\* The instants of a day at which the model lets calls happen: the start and
\* the ages around the timeout (exactly it, one tick above it, one whole
\* second above it).
Offsets == {0, TTL, TTL + 1, TTL + TicksPerSecond}

Instants == {d * Day + o : d \in 0..MaxDays, o \in Offsets}

\* timedelta.seconds of (t - ts): timedelta normalises to days, seconds in
\* 0..86399 and microseconds >= 0, and .seconds is the middle field alone.
timedelta_seconds(t, ts) == ((t - ts) % Day) \div TicksPerSecond

\* (datetime.now() - cached["timestamp"]).seconds
Age(ts) == timedelta_seconds(now, ts)

\* `if age > cache_timeout`
IsExpired(age) == age > cache_timeout

-----------------------------------------------------------------------------
(* Cache ids.  An id is the string                                         *)
(*   f"folder_{now:%Y%m%d_%H%M%S}_{hash(folder_path)}"                     *)
(* modelled as the pair <<second, hash>>; the empty string is <<>>; None   *)
(* (no argument) is the one-element tuple <<-1>>.                          *)

None == <<-1>>

EmptyString == <<>>

\* Python truthiness of an Optional[str]: None and '' are false.
Truthy(s) == s # None /\ s # EmptyString

-----------------------------------------------------------------------------
(* The file system the calls see.  A name is the sequence of its           *)
(* characters; a relative path is the sequence of its components.          *)

\* How many .log files the folder /logs holds.
NumLogFiles == 11

MB == 1024 * 1024

RECURSIVE Digits(_)
Digits(i) == IF i < 10 THEN <<ToString(i)>>
             ELSE Digits(i \div 10) \o <<ToString(i % 10)>>

DotLog == <<".", "l", "o", "g">>

File(rel, size, content, stat_ok, read_ok) ==
    [is_file |-> TRUE, rel |-> rel, size |-> size, content |-> content,
     stat_ok |-> stat_ok, read_ok |-> read_ok]

Directory(rel) ==
    [is_file |-> FALSE, rel |-> rel, size |-> 0, content |-> <<>>,
     stat_ok |-> TRUE, read_ok |-> FALSE]

\* /data in the order Path.rglob("*") yields it: a 10-byte file and a 200MB
\* file (its bytes are never read by the calls modelled and are left out).
DataFolder ==
    << File(<< <<"s", ".", "c", "s", "v">> >>, 10,
            <<105, 100, 44, 121, 10, 49, 44, 50, 10, 0>>, TRUE, TRUE),
       File(<< <<"b", "i", "g", ".", "b", "i", "n">> >>, 200 * MB, <<>>, TRUE, TRUE) >>

\* /logs: NumLogFiles files 1.log, 2.log, ... of 1, 2, ... bytes, then a
\* subdirectory with one more .log file, a text file, and a file that cannot
\* be opened.
LogsFolder ==
    [i \in 1..NumLogFiles |->
        File(<< Digits(i) \o DotLog >>, i, [k \in 1..i |-> (i + k) % 256], TRUE, TRUE)]
    \o << Directory(<< <<"s", "u", "b">> >>),
          File(<< <<"s", "u", "b">>, <<"a">> \o DotLog >>, 5,
               <<108, 105, 110, 101, 10>>, TRUE, TRUE),
          File(<< <<"k", ".", "t", "x", "t">> >>, 2, <<111, 107>>, TRUE, TRUE),
          File(<< <<"n", "o", "r", "e", "a", "d">> >>, 4, <<1, 2, 3, 255>>, TRUE, FALSE) >>

\* /locked: a readable file and one whose stat() raises OSError.
LockedFolder ==
    << File(<< <<"o", "k">> >>, 3, <<97, 98, 99>>, TRUE, TRUE),
       File(<< <<"x", ".", "d", "a", "t">> >>, 7, <<>>, FALSE, FALSE) >>

PathList == <<"/none", "/file.txt", "/data", "/logs", "/locked">>

Paths == {PathList[i] : i \in 1..Len(PathList)}

\* Path(folder_path).exists()
Exists(folder_path) == folder_path # "/none"

\* Path(folder_path).is_dir()
IsDir(folder_path) == folder_path \in {"/data", "/logs", "/locked"}

\* Path(folder_path).rglob("*")
rglob(folder_path) ==
    IF folder_path = "/data" THEN DataFolder
    ELSE IF folder_path = "/logs" THEN LogsFolder
    ELSE IF folder_path = "/locked" THEN LockedFolder
    ELSE <<>>

\* hash(folder_path): an integer, distinct for the few paths of the model.
Hash(folder_path) == CHOOSE i \in 1..Len(PathList) : PathList[i] = folder_path

\* str(file_path) for a path under the root folder_path
FullPath(folder_path, rel) == <<folder_path>> \o rel

-----------------------------------------------------------------------------
(* Pure helpers of prepare_local_folder.                                   *)

\* fnmatch.fnmatchcase for patterns made of literal characters, * and ?.
RECURSIVE fnmatch(_, _)
fnmatch(name, pat) ==
    IF pat = <<>> THEN name = <<>>
    ELSE IF Head(pat) = "*"
         THEN fnmatch(name, Tail(pat)) \/ (name # <<>> /\ fnmatch(Tail(name), pat))
    ELSE IF Head(pat) = "?"
         THEN name # <<>> /\ fnmatch(Tail(name), Tail(pat))
    ELSE name # <<>> /\ Head(name) = Head(pat) /\ fnmatch(Tail(name), Tail(pat))

\* PurePath.match(pattern) for a relative pattern of one component: the
\* pattern is matched against the last component of the path.
PathMatch(rel, pattern) == fnmatch(rel[Len(rel)], pattern)

\* Mutant: only the first pattern of the list is tried.
SkipByFirstPattern(rel, skip_patterns) == PathMatch(rel, skip_patterns[1])

\* `if skip_patterns: if any(file_path.match(pattern) for pattern in skip_patterns)`
\* (the empty sequence stands for both None and []).
SkipByPattern(rel, skip_patterns) ==
    \E k \in 1..Len(skip_patterns) : PathMatch(rel, skip_patterns[k])

\* Mutant: `if file_size >= max_file_size`
TooLargeOrEqual(file_size, max_file_size) == file_size >= max_file_size

\* `if file_size > max_file_size`
TooLarge(file_size, max_file_size) == file_size > max_file_size

\* base64.b64encode: a character of the output is its index in the base64
\* alphabet, 64 is the padding '='.
RECURSIVE b64encode(_)
b64encode(b) ==
    IF b = <<>> THEN <<>>
    ELSE IF Len(b) = 1
         THEN <<b[1] \div 4, (b[1] % 4) * 16, 64, 64>>
    ELSE IF Len(b) = 2
         THEN <<b[1] \div 4, (b[1] % 4) * 16 + b[2] \div 16, (b[2] % 16) * 4, 64>>
    ELSE <<b[1] \div 4, (b[1] % 4) * 16 + b[2] \div 16,
           (b[2] % 16) * 4 + b[3] \div 64, b[3] % 64>>
         \o b64encode(SubSeq(b, 4, Len(b)))

\* size/1024/1024 rounded to a multiple of 1/scale MB (round half to even),
\* in units of 1/scale MB.
ScaledMB(size, scale) ==
    LET whole == (size \div MB) * scale
        num   == (size % MB) * scale
        q     == num \div MB
        r     == num % MB
        up    == (2 * r > MB) \/ (2 * r = MB /\ (whole + q) % 2 = 1)
    IN  whole + q + (IF up THEN 1 ELSE 0)

\* f"{file_size/1024/1024:.1f}", in tenths of a MB.
SizeInTenthsOfMB(file_size) == ScaledMB(file_size, 10)

\* round(total_size / 1024 / 1024, 2), in hundredths of a MB.
SizeInHundredthsOfMB(total_size) == ScaledMB(total_size, 100)

\* skipped_files[:10]
SkippedDetailsLimit == 10

\* Mutant: skipped_files[-10:]
SkippedDetailsLastTen(skipped_files) ==
    SubSeq(skipped_files,
           IF Len(skipped_files) < SkippedDetailsLimit
           THEN 1 ELSE Len(skipped_files) - SkippedDetailsLimit + 1,
           Len(skipped_files))

SkippedDetails(skipped_files) ==
    SubSeq(skipped_files, 1,
           IF Len(skipped_files) < SkippedDetailsLimit
           THEN Len(skipped_files) ELSE SkippedDetailsLimit)

\* file_handler.analyze_folder: the tree description of the folder, one item
\* per entry in walk order.
analyze_folder(folder_path) ==
    [i \in 1..Len(rglob(folder_path)) |->
        [relative_path |-> rglob(folder_path)[i].rel,
         is_directory  |-> ~rglob(folder_path)[i].is_file,
         size          |-> rglob(folder_path)[i].size]]

-----------------------------------------------------------------------------
(* prepare_local_folder (src/local_server.py:39-132).                      *)

\* A line of skipped_files: str(file_path), then nothing, " (too large: x.yMB)"
\* (detail: tenths of a MB) or " (error: ...)" (detail: the errno).
Skipped(folder_path, rel, tag, detail) ==
    [path |-> FullPath(folder_path, rel), tag |-> tag, detail |-> detail]

EACCES == 13

\* max_file_size: int = 100 * 1024 * 1024
DefaultMaxFileSize == 100 * MB

NoFiles == [k \in {} |-> <<>>]

\* One iteration of `for file_path in path.rglob("*")`.  acc.raised is set
\* when the iteration leaves the loop by an exception (stat() is outside the
\* inner try).
WalkStep(acc, f, folder_path, max_file_size, skip_patterns) ==
    IF acc.raised \/ ~f.is_file THEN acc
    ELSE IF skip_patterns # <<>> /\ SkipByPattern(f.rel, skip_patterns)
    THEN [acc EXCEPT !.skipped_files =
              Append(@, Skipped(folder_path, f.rel, "pattern", 0))]
    ELSE IF ~f.stat_ok
    THEN [acc EXCEPT !.raised = TRUE]
    ELSE IF TooLarge(f.size, max_file_size)
    THEN [acc EXCEPT !.skipped_files =
              Append(@, Skipped(folder_path, f.rel, "too large",
                                SizeInTenthsOfMB(f.size)))]
    ELSE IF f.read_ok
    THEN [acc EXCEPT
              !.file_contents =
                  [k \in DOMAIN acc.file_contents \cup {f.rel} |->
                      IF k = f.rel THEN b64encode(f.content)
                      ELSE acc.file_contents[k]],
              !.total_size = @ + f.size]
    ELSE [acc EXCEPT !.skipped_files =
              Append(@, Skipped(folder_path, f.rel, "error", EACCES))]

RECURSIVE Walk(_, _, _, _, _, _)
Walk(acc, files, i, folder_path, max_file_size, skip_patterns) ==
    IF i > Len(files) THEN acc
    ELSE Walk(WalkStep(acc, files[i], folder_path, max_file_size, skip_patterns),
              files, i + 1, folder_path, max_file_size, skip_patterns)

\* The state of the loop's variables when the loop is left.
ReadFolder(folder_path, max_file_size, skip_patterns) ==
    Walk([file_contents |-> NoFiles, total_size |-> 0,
          skipped_files |-> <<>>, raised |-> FALSE],
         rglob(folder_path), 1, folder_path, max_file_size, skip_patterns)

\* f"folder_{datetime.now().strftime('%Y%m%d_%H%M%S')}_{hash(folder_path)}"
CacheId(t, folder_path) == <<t \div TicksPerSecond, Hash(folder_path)>>

Failure(kind, detail) ==
    [success |-> FALSE, error |-> [kind |-> kind, detail |-> detail]]

\* Mutant: skipped_files counted after the cut to 10 lines.
SummaryCountingDetails(walk) ==
    [total_files     |-> Cardinality(DOMAIN walk.file_contents),
     total_size      |-> walk.total_size,
     total_size_mb   |-> SizeInHundredthsOfMB(walk.total_size),
     skipped_files   |-> Len(SkippedDetails(walk.skipped_files)),
     skipped_details |-> SkippedDetails(walk.skipped_files)]

\* The "summary" of the returned dict.
Summary(walk) ==
    [total_files     |-> Cardinality(DOMAIN walk.file_contents),
     total_size      |-> walk.total_size,
     total_size_mb   |-> SizeInHundredthsOfMB(walk.total_size),
     skipped_files   |-> Len(walk.skipped_files),
     skipped_details |-> SkippedDetails(walk.skipped_files)]

\* The entry stored under the cache id.
Entry(walk, folder_path) ==
    [folder_structure |-> analyze_folder(folder_path),
     file_contents    |-> walk.file_contents,
     timestamp        |-> now,
     source_path      |-> folder_path]

\* Mutant: the entry is stored a second time under the id 'folder_0_0'.
PutTwice(cache, cache_id, entry) ==
    [i \in DOMAIN cache \cup {cache_id, <<0, 0>>} |->
        IF i \in {cache_id, <<0, 0>>} THEN entry ELSE cache[i]]

Put(cache, cache_id, entry) ==
    [i \in DOMAIN cache \cup {cache_id} |->
        IF i = cache_id THEN entry ELSE cache[i]]

Remove(cache, ids) == [i \in DOMAIN cache \ ids |-> cache[i]]

\* Mutant: the entry is stored before the walk's outcome is known, so a call
\* that fails on stat() leaves it behind.
prepare_local_folder_put_first(folder_path, max_file_size, skip_patterns) ==
    LET walk == ReadFolder(folder_path, max_file_size, skip_patterns)
        cache_id == CacheId(now, folder_path)
        cache == Put(data_cache, cache_id, Entry(walk, folder_path))
    IN  IF ~Exists(folder_path)
        THEN [ret |-> Failure("Path not found", folder_path), cache |-> data_cache]
        ELSE IF ~IsDir(folder_path)
        THEN [ret |-> Failure("Not a directory", folder_path), cache |-> data_cache]
        ELSE IF walk.raised
        THEN [ret |-> Failure("OSError", folder_path), cache |-> cache]
        ELSE [ret |-> [success |-> TRUE, cache_id |-> cache_id,
                       summary |-> Summary(walk)],
              cache |-> cache]

\* What one call does: the dict it returns (ret) and the cache it leaves.
prepare_local_folder(folder_path, max_file_size, skip_patterns) ==
    LET walk == ReadFolder(folder_path, max_file_size, skip_patterns)
        cache_id == CacheId(now, folder_path)
    IN  IF ~Exists(folder_path)
        THEN [ret |-> Failure("Path not found", folder_path), cache |-> data_cache]
        ELSE IF ~IsDir(folder_path)
        THEN [ret |-> Failure("Not a directory", folder_path), cache |-> data_cache]
        ELSE IF walk.raised
        THEN [ret |-> Failure("OSError", folder_path), cache |-> data_cache]
        ELSE [ret |-> [success |-> TRUE, cache_id |-> cache_id,
                       summary |-> Summary(walk)],
              cache |-> Put(data_cache, cache_id, Entry(walk, folder_path))]

Call(op, args, ret) == [op |-> op, args |-> args, ret |-> ret]

NoCall == Call("none", <<>>, [success |-> TRUE])

PrepareLocalFolder(folder_path, max_file_size, skip_patterns) ==
    LET r == prepare_local_folder(folder_path, max_file_size, skip_patterns)
    IN  /\ r.ret.success =>
              \/ r.ret.cache_id \in issued
              \/ Cardinality(issued) < MaxPrepares
        /\ data_cache' = r.cache
        /\ issued' = IF r.ret.success THEN issued \cup {r.ret.cache_id} ELSE issued
        /\ result' = Call("prepare_local_folder",
                          <<folder_path, max_file_size, skip_patterns>>, r.ret)
        /\ UNCHANGED <<now, denied, home, net, disk, client, loop>>

-----------------------------------------------------------------------------
(* get_cached_data (src/local_server.py:136-167).                          *)

\* Mutant: the expired branch reports the expiry and forgets `del`.
get_cached_data_without_del(cache_id) ==
    IF cache_id \notin DOMAIN data_cache
    THEN [ret |-> Failure("Cache ID not found", cache_id), cache |-> data_cache]
    ELSE LET cached == data_cache[cache_id]
             age == Age(cached.timestamp)
         IN  IF IsExpired(age)
             THEN [ret |-> Failure("Cache expired", age), cache |-> data_cache]
             ELSE [ret |-> [success |-> TRUE,
                            folder_structure |-> cached.folder_structure,
                            file_contents |-> cached.file_contents],
                   cache |-> data_cache]

\* Mutant: no membership test, data_cache.setdefault(cache_id, {...}) instead.
get_cached_data_setdefault(cache_id) ==
    LET empty == [folder_structure |-> <<>>, file_contents |-> NoFiles,
                  timestamp |-> now, source_path |-> ""]
        cache == IF cache_id \in DOMAIN data_cache THEN data_cache
                 ELSE Put(data_cache, cache_id, empty)
        cached == cache[cache_id]
        age == Age(cached.timestamp)
    IN  IF IsExpired(age)
        THEN [ret |-> Failure("Cache expired", age),
              cache |-> Remove(cache, {cache_id})]
        ELSE [ret |-> [success |-> TRUE,
                       folder_structure |-> cached.folder_structure,
                       file_contents |-> cached.file_contents],
              cache |-> cache]

get_cached_data(cache_id) ==
    IF cache_id \notin DOMAIN data_cache
    THEN [ret |-> Failure("Cache ID not found", cache_id), cache |-> data_cache]
    ELSE LET cached == data_cache[cache_id]
             age == Age(cached.timestamp)
         IN  IF IsExpired(age)
             THEN [ret |-> Failure("Cache expired", age),
                   cache |-> Remove(data_cache, {cache_id})]
             ELSE [ret |-> [success |-> TRUE,
                            folder_structure |-> cached.folder_structure,
                            file_contents |-> cached.file_contents],
                   cache |-> data_cache]

GetCachedData(cache_id) ==
    LET r == get_cached_data(cache_id)
    IN  /\ data_cache' = r.cache
        /\ result' = Call("get_cached_data", <<cache_id>>, r.ret)
        /\ UNCHANGED <<now, issued, denied, home, net, disk, client, loop>>

-----------------------------------------------------------------------------
(* clear_cache (src/local_server.py:540-575).                              *)

\* The ids the sweep deletes.
ExpiredIds(cache) ==
    {cid \in DOMAIN cache : IsExpired(Age(cache[cid].timestamp))}

clear_cache(cache_id) ==
    IF Truthy(cache_id)
    THEN IF cache_id \in DOMAIN data_cache
         THEN [ret |-> [success |-> TRUE, message |-> <<"Cleared cache", cache_id>>],
               cache |-> Remove(data_cache, {cache_id})]
         ELSE [ret |-> Failure("Cache ID not found", cache_id), cache |-> data_cache]
    ELSE LET expired == ExpiredIds(data_cache)
             left == Remove(data_cache, expired)
         IN  [ret |-> [success |-> TRUE,
                       message |-> <<"Cleared expired caches", Cardinality(expired)>>,
                       active_caches |-> Cardinality(DOMAIN left)],
              cache |-> left]

ClearCache(cache_id) ==
    LET r == clear_cache(cache_id)
    IN  /\ data_cache' = r.cache
        /\ result' = Call("clear_cache", <<cache_id>>, r.ret)
        /\ UNCHANGED <<now, issued, denied, home, net, disk, client, loop>>

-----------------------------------------------------------------------------
(* The wall clock.  datetime.now() is naive local time: it moves forward   *)
(* as time passes and is set back when the system clock is corrected or    *)
(* daylight saving time ends.                                              *)

ClockForward ==
    /\ \E t \in Instants : t > now /\ now' = t
    /\ result' = NoCall
    /\ UNCHANGED <<data_cache, issued, denied, home, net, disk, client, loop>>

ClockSetBack ==
    /\ \E t \in Instants : t < now /\ now' = t
    /\ result' = NoCall
    /\ UNCHANGED <<data_cache, issued, denied, home, net, disk, client, loop>>

-----------------------------------------------------------------------------
(* explore_directory (src/local_server.py:171-238).                        *)
(*                                                                         *)
(* A name is the sequence of its code points, a path the sequence of its   *)
(* names from the explored volume's top directory.                         *)

Dot == 46

ExploreFile(path, size, mtime) ==
    [path |-> path, is_file |-> TRUE, size |-> size, mtime |-> mtime]

ExploreDir(path) == [path |-> path, is_file |-> FALSE, size |-> 0, mtime |-> 0]

\* The directory r, in the order the operating system lists its entries:
\*   r/z.txt  r/p/  r/.h  r/a/  r/B  r/a/b/  r/a/b/c.txt  r/p/q.txt
ExploreFS ==
    << ExploreDir(<< <<114>> >>),
       ExploreFile(<< <<114>>, <<122, 46, 116, 120, 116>> >>, 7, 3),
       ExploreDir(<< <<114>>, <<112>> >>),
       ExploreFile(<< <<114>>, <<46, 104>> >>, 1, 1),
       ExploreDir(<< <<114>>, <<97>> >>),
       ExploreFile(<< <<114>>, <<66>> >>, 2, 2),
       ExploreDir(<< <<114>>, <<97>>, <<98>> >>),
       ExploreFile(<< <<114>>, <<97>>, <<98>>, <<99, 46, 116, 120, 116>> >>, 5, 4),
       ExploreFile(<< <<114>>, <<112>>, <<113, 46, 116, 120, 116>> >>, 9, 5) >>

ExploreDirs == {ExploreFS[i].path : i \in {j \in 1..Len(ExploreFS) : ~ExploreFS[j].is_file}}

\* Path.exists, Path.is_file, Path.stat, Path.name, Path.suffix.
path_exists(p) == \E i \in 1..Len(ExploreFS) : ExploreFS[i].path = p

stat(p) == ExploreFS[CHOOSE i \in 1..Len(ExploreFS) : ExploreFS[i].path = p]

is_file(p) == path_exists(p) /\ stat(p).is_file

path_name(p) == p[Len(p)]

path_suffix(n) ==
    LET dots == {i \in 1..Len(n) : n[i] = Dot}
        last == CHOOSE i \in dots : \A j \in dots : j <= i
    IN  IF dots # {} /\ 1 < last /\ last < Len(n)
        THEN SubSeq(n, last, Len(n))
        ELSE <<>>

\* Path.iterdir: the entries of directory p in the operating system's order.
iterdir(p) ==
    LET IsChild(e) == Len(e.path) = Len(p) + 1 /\ SubSeq(e.path, 1, Len(p)) = p
        listed == SelectSeq(ExploreFS, IsChild)
    IN  [i \in 1..Len(listed) |-> listed[i].path]

\* str < str compares code points; Path < Path compares the parts in turn.
RECURSIVE StrLess(_, _)
StrLess(s, t) ==
    IF s = <<>> THEN t # <<>>
    ELSE IF t = <<>> THEN FALSE
    ELSE IF Head(s) = Head(t) THEN StrLess(Tail(s), Tail(t))
    ELSE Head(s) < Head(t)

RECURSIVE PathLess(_, _)
PathLess(p, q) ==
    IF p = <<>> THEN q # <<>>
    ELSE IF q = <<>> THEN FALSE
    ELSE IF Head(p) = Head(q) THEN PathLess(Tail(p), Tail(q))
    ELSE StrLess(Head(p), Head(q))

RECURSIVE Insert(_, _)
Insert(p, seq) ==
    IF seq = <<>> THEN <<p>>
    ELSE IF PathLess(p, Head(seq)) THEN <<p>> \o seq
    ELSE <<Head(seq)>> \o Insert(p, Tail(seq))

unsorted(seq) == seq

RECURSIVE sorted(_)
sorted(seq) == IF seq = <<>> THEN <<>> ELSE Insert(Head(seq), sorted(Tail(seq)))

DepthReachedAfter(current_depth, max_depth) == current_depth > max_depth

\* Line 196: the test that cuts the traversal.
DepthReached(current_depth, max_depth) == current_depth >= max_depth

Truncated(p) == [type |-> "directory", name |-> path_name(p), truncated |-> TRUE]

FileNode(p) ==
    [type |-> "file", name |-> path_name(p), size |-> stat(p).size,
     modified |-> stat(p).mtime, extension |-> path_suffix(path_name(p))]

EmptyListing(p) ==
    [type |-> "directory", name |-> path_name(p), children |-> <<>>, count |-> 0]

\* Line 216: the node of a directory whose listing raised PermissionError.
PermissionDenied(p) ==
    [type |-> "directory", name |-> path_name(p), error |-> "Permission denied"]

\* Line 212: the entries the loop keeps.
Shown(n, include_hidden) == include_hidden \/ n[1] # Dot

\* explore_tree with the directories of no_list unlistable.  The depth test
\* comes first, before the node is known to be a file or a directory.
RECURSIVE explore_tree(_, _, _, _, _)
explore_tree(p, current_depth, max_depth, include_hidden, no_list) ==
    IF DepthReached(current_depth, max_depth) THEN Truncated(p)
    ELSE IF is_file(p) THEN FileNode(p)
    ELSE IF p \in no_list THEN PermissionDenied(p)
    ELSE LET Kept(child) == Shown(path_name(child), include_hidden)
             kept == SelectSeq(sorted(iterdir(p)), Kept)
             children == [i \in 1..Len(kept) |->
                             explore_tree(kept[i], current_depth + 1, max_depth,
                                          include_hidden, no_list)]
         IN  [type |-> "directory", name |-> path_name(p),
              children |-> children, count |-> Len(children)]

explore_directory(directory_path, max_depth, include_hidden) ==
    IF ~path_exists(directory_path)
    THEN Failure("Path not found", directory_path)
    ELSE [success |-> TRUE,
          tree |-> explore_tree(directory_path, 0, max_depth, include_hidden, denied),
          base_path |-> directory_path]

ExploreDirectory(directory_path, max_depth, include_hidden) ==
    /\ result' = Call("explore_directory",
                      <<directory_path, max_depth, include_hidden>>,
                      explore_directory(directory_path, max_depth, include_hidden))
    /\ UNCHANGED <<now, data_cache, issued, denied, home, net, disk, client, loop>>

\* chmod on a directory of the tree: its listing starts or stops raising
\* PermissionError.
Chmod(d) ==
    /\ denied' = IF d \in denied THEN denied \ {d} ELSE denied \cup {d}
    /\ result' = NoCall
    /\ UNCHANGED <<now, data_cache, issued, home, net, disk, client, loop>>

-----------------------------------------------------------------------------
(* read_credentials (src/local_server.py:385-449).                         *)
(*                                                                         *)
(* A text is the sequence of its characters.  A credentials file is kept   *)
(* as the pieces of text around its secret values and the values, so that  *)
(* two files that differ in the values only can be told.                   *)

LowerCase == <<"a", "b", "c", "d", "e", "f", "g", "h", "i", "j", "k", "l", "m",
               "n", "o", "p", "q", "r", "s", "t", "u", "v", "w", "x", "y", "z">>

UpperCase == <<"A", "B", "C", "D", "E", "F", "G", "H", "I", "J", "K", "L", "M",
               "N", "O", "P", "Q", "R", "S", "T", "U", "V", "W", "X", "Y", "Z">>

\* re.IGNORECASE compares letters without their case.
upper(c) ==
    IF \E k \in 1..Len(LowerCase) : LowerCase[k] = c
    THEN UpperCase[CHOOSE k \in 1..Len(LowerCase) : LowerCase[k] = c]
    ELSE c

Quote == "\""

\* \s of the pattern.
IsSpace(c) == c \in {" ", "\n", "\t"}

\* The keys of line 425.
MaskedKeys == << <<"K", "E", "Y">>, <<"S", "E", "C", "R", "E", "T">>,
                 <<"T", "O", "K", "E", "N">>,
                 <<"P", "A", "S", "S", "W", "O", "R", "D">> >>

\* The replacement of line 429 after \1.
Masked == <<Quote, "*", "*", "*", "M", "A", "S", "K", "E", "D", "*", "*", "*", Quote>>

Least(S) == CHOOSE i \in S : \A j \in S : i <= j

\* An attempt of the pattern  (key[^=]*=\s*)"?([^"\s]+)"?  at position i of
\* text: [^=]* runs to the first '=', \s* over the blanks after it, "? takes
\* a quote if one is there, [^"\s]+ needs one character at least and runs to
\* the next quote or blank, "? takes a closing quote.  No other way of
\* matching exists at i, so backtracking finds nothing more.
MatchAt(text, i, key) ==
    LET n == Len(text)
        starts == /\ i + Len(key) - 1 <= n
                  /\ \A k \in 1..Len(key) : upper(text[i + k - 1]) = key[k]
        eq == Least({j \in (i + Len(key))..n : text[j] = "="} \cup {n + 1})
        val == Least({j \in (eq + 1)..n : ~IsSpace(text[j])} \cup {n + 1})
        from == IF val <= n /\ text[val] = Quote THEN val + 1 ELSE val
        stop == Least({j \in from..n : text[j] = Quote \/ IsSpace(text[j])} \cup {n + 1})
        last == IF stop <= n /\ text[stop] = Quote THEN stop ELSE stop - 1
    IN  [ok |-> starts /\ eq <= n /\ stop > from,
         group1 |-> IF eq <= n THEN SubSeq(text, i, val - 1) ELSE <<>>,
         last |-> last]

\* re.sub(pattern, r'\1"***MASKED***"', text, flags=re.IGNORECASE) from
\* position i on: leftmost matches, none overlapping.
RECURSIVE re_sub(_, _, _)
re_sub(text, i, key) ==
    IF i > Len(text) THEN <<>>
    ELSE LET m == MatchAt(text, i, key)
         IN  IF m.ok
             THEN m.group1 \o Masked \o re_sub(text, m.last + 1, key)
             ELSE <<text[i]>> \o re_sub(text, i + 1, key)

\* Lines 424-432: the loop over the keys.
RECURSIVE mask_keys(_, _)
mask_keys(content, k) ==
    IF k > Len(MaskedKeys) THEN content
    ELSE mask_keys(re_sub(content, 1, MaskedKeys[k]), k + 1)

masked_content(content) == mask_keys(content, 1)

LogSliceLimit == 200

Slice(text, n) == SubSeq(text, 1, IF Len(text) < n THEN Len(text) ELSE n)

\* Lines 434-435: what a successful call hands to the logger.
LogRecords(path, content) ==
    << [level |-> "INFO", message |-> <<"Read credentials from: ", path>>],
       [level |-> "DEBUG",
        message |-> <<"Masked content: ",
                      Slice(masked_content(content), LogSliceLimit), "...">>] >>

\* A credentials file: Len(pieces) = Len(values) + 1.
CredFile(pieces, values, readable) ==
    [pieces |-> pieces, values |-> values, readable |-> readable]

RECURSIVE Render(_, _)
Render(pieces, values) ==
    IF values = <<>> THEN Head(pieces)
    ELSE Head(pieces) \o Head(values) \o Render(Tail(pieces), Tail(values))

\* Path.read_text of a file.
read_text(file) == Render(file.pieces, file.values)

\*   api_key = "<value>"
\*   user=bob
IniPieces == << <<"a", "p", "i", "_", "k", "e", "y", " ", "=", " ", Quote>>,
                <<Quote, "\n", "u", "s", "e", "r", "=", "b", "o", "b", "\n">> >>

\*   token: <value>
YamlPieces == << <<"t", "o", "k", "e", "n", ":", " ">>, <<"\n">> >>

SecretValues == {<<"a", "b", "c">>, <<"m", "y", " ", "p", "w">>}

CredFiles ==
    {CredFile(p, <<v>>, TRUE) : p \in {IniPieces, YamlPieces}, v \in SecretValues}
    \cup {CredFile(IniPieces, << <<"x">> >>, FALSE)}

Home == <<"~">>

common_paths_home_first(path) ==
    << Home \o <<".aws", "credentials">>,
       Home \o <<path[Len(path)]>>,
       Home \o <<".aws", path[Len(path)]>> >>

\* Lines 404-408.
common_paths(path) ==
    << Home \o <<".aws", "credentials">>,
       Home \o <<".aws", path[Len(path)]>>,
       Home \o <<path[Len(path)]>> >>

\* Lines 410-413: the first of paths that exists, <<>> when none does.
FirstExisting(paths) ==
    LET found == {k \in 1..Len(paths) : paths[k] \in DOMAIN home}
    IN  IF found = {} THEN <<>> ELSE paths[Least(found)]

\* The returned dict and the records handed to the logger.
read_credentials(creds_path, provider) ==
    LET path == IF creds_path \in DOMAIN home THEN creds_path
                ELSE FirstExisting(common_paths(creds_path))
    IN  IF path = <<>>
        THEN [ret |-> Failure("Credentials file not found", creds_path), log |-> <<>>]
        ELSE IF ~home[path].readable
        THEN [ret |-> Failure("OSError", path),
              log |-> << [level |-> "ERROR",
                          message |-> <<"Failed to read credentials: ", path>>] >>]
        ELSE [ret |-> [success |-> TRUE,
                       credentials_text |-> read_text(home[path]),
                       source_path |-> path,
                       provider_hint |-> provider],
              log |-> LogRecords(path, read_text(home[path]))]

ReadCredentials(creds_path, provider) ==
    LET r == read_credentials(creds_path, provider)
    IN  /\ result' = [op |-> "read_credentials", args |-> <<creds_path, provider>>,
                      ret |-> r.ret, log |-> r.log]
        /\ UNCHANGED <<now, data_cache, issued, denied, home, net, disk, client, loop>>

\* A credentials file is written, replaced or removed.
WriteFile(path, file) ==
    /\ home' = [p \in DOMAIN home \cup {path} |-> IF p = path THEN file ELSE home[p]]
    /\ result' = NoCall
    /\ UNCHANGED <<now, data_cache, issued, denied, net, disk, client, loop>>

RemoveFile(path) ==
    /\ path \in DOMAIN home
    /\ home' = [p \in DOMAIN home \ {path} |-> home[p]]
    /\ result' = NoCall
    /\ UNCHANGED <<now, data_cache, issued, denied, net, disk, client, loop>>

-----------------------------------------------------------------------------
(* The unified proxy (src/proxy_server.py).  create_unified_proxy hands    *)
(* the table of servers to FastMCP.as_proxy; the router behind it is not   *)
(* in src/ and is modelled from section 4.5 of the specification: callTool *)
(* finds the longest registered prefix of the tool name, strips it and     *)
(* forwards the call once.                                                 *)

mcpServers_renamed ==
    (<<"l", "o", "c", "a", "l">> :>
        [url |-> "http://localhost:8001/mcp", transport |-> "http"])
    @@ (<<"e", "c", "2">> :>
        [url |-> "https://0d49-34-211-143-25.ngrok-free.app/mcp", transport |-> "http"])

\* config["mcpServers"] of lines 20-34: server name -> address.
mcpServers ==
    (<<"l", "o", "c", "a", "l">> :>
        [url |-> "http://localhost:8001/mcp", transport |-> "http"])
    @@ (<<"r", "e", "m", "o", "t", "e">> :>
        [url |-> "https://0d49-34-211-143-25.ngrok-free.app/mcp", transport |-> "http"])

\* The prefix of a server's tools: 'local_', 'remote_' (lines 52, 58).
Prefix(server) == server \o <<"_">>

StartsWith(tool_name, prefix) ==
    /\ Len(tool_name) >= Len(prefix)
    /\ SubSeq(tool_name, 1, Len(prefix)) = prefix

\* The servers whose prefix starts tool_name, and the one with the longest.
Matching(tool_name) == {s \in DOMAIN mcpServers : StartsWith(tool_name, Prefix(s))}

Route(tool_name) ==
    CHOOSE s \in Matching(tool_name) : \A t \in Matching(tool_name) : Len(t) <= Len(s)

Strip(tool_name, server) ==
    SubSeq(tool_name, Len(Prefix(server)) + 1, Len(tool_name))

\* One attempt to reach a backend: the call as it goes out and what came
\* back, if anything.
Forward(server, tool, arguments, reached, response) ==
    [server |-> server, tool |-> tool, arguments |-> arguments,
     reached |-> reached, response |-> response]

AttemptsWithRetry(reached) == IF reached THEN 1 ELSE 2

\* How often callTool forwards one call.
Attempts(reached) == 1

RECURSIVE Repeat(_, _)
Repeat(x, n) == IF n = 0 THEN <<>> ELSE <<x>> \o Repeat(x, n - 1)

\* callTool(tool_name, arguments) with the backend answering response when
\* it is reachable.
callTool(tool_name, arguments, response) ==
    IF Matching(tool_name) = {}
    THEN [ret |-> Failure("UnknownTool", tool_name), forwarded |-> <<>>]
    ELSE LET server == Route(tool_name)
             reached == server \in net.up
             out == Forward(server, Strip(tool_name, server), arguments, reached,
                            IF reached THEN response ELSE [success |-> FALSE])
         IN  [ret |-> IF reached THEN response
                      ELSE Failure("BackendUnreachable", server),
              forwarded |-> Repeat(out, Attempts(reached))]

MaxForwards == 2

CallTool(tool_name, arguments, response) ==
    LET r == callTool(tool_name, arguments, response)
    IN  /\ Len(net.forwarded) + Len(r.forwarded) <= MaxForwards
        /\ net' = [net EXCEPT !.forwarded = @ \o r.forwarded]
        /\ result' = Call("callTool", <<tool_name, arguments>>, r.ret)
        /\ UNCHANGED <<now, data_cache, issued, denied, home, disk, client, loop>>

\* A backend stops answering, or answers again.
BackendDown(server) ==
    /\ server \in net.up
    /\ net' = [net EXCEPT !.up = @ \ {server}]
    /\ result' = NoCall
    /\ UNCHANGED <<now, data_cache, issued, denied, home, disk, client, loop>>

BackendUp(server) ==
    /\ server \notin net.up
    /\ net' = [net EXCEPT !.up = @ \cup {server}]
    /\ result' = NoCall
    /\ UNCHANGED <<now, data_cache, issued, denied, home, disk, client, loop>>

-----------------------------------------------------------------------------
(* read_local_file, validate_dataset, save_download_locally and            *)
(* create_config_template (src/local_server.py:241-536).                   *)
(*                                                                         *)
(* disk.files maps a path (the sequence of its names, a name the sequence  *)
(* of its characters) to a directory or to a file with its bytes;          *)
(* disk.pandas tells whether `import pandas` succeeds.  A text is the      *)
(* sequence of its code points.                                            *)

DiskDir == [is_file |-> FALSE, bytes |-> <<>>, readable |-> TRUE, mtime |-> 0]

DiskFile(bytes, readable, mtime) ==
    [is_file |-> TRUE, bytes |-> bytes, readable |-> readable, mtime |-> mtime]

TDir == << <<"t">> >>

EmptyCsv == << <<"t">>, <<"e", ".", "c", "s", "v">> >>

DataCsv == << <<"t">>, <<"d", ".", "C", "S", "V">> >>

GoodJson == << <<"t">>, <<"j", ".", "j", "s", "o", "n">> >>

BadJson == << <<"t">>, <<"k", ".", "j", "s", "o", "n">> >>

BinFile == << <<"t">>, <<"b", ".", "b", "i", "n">> >>

TextFile == << <<"t">>, <<"u", ".", "t", "x", "t">> >>

LockedFile == << <<"t">>, <<"l", ".", "c", "s", "v">> >>

MissingFile == << <<"t">>, <<"m", ".", "c", "s", "v">> >>

OutFile == << <<"t">>, <<"o", "u", "t">> >>

NestedOutFile == << <<"n">>, <<"o", "u", "t">> >>

\*   t/e.csv   empty
\*   t/d.CSV   "Y,a\n1,2\n"
\*   t/j.json  "[1]"
\*   t/k.json  "{"
\*   t/b.bin   the bytes ff 00 c3, no UTF-8
\*   t/u.txt   "é\r\n" in UTF-8
\*   t/l.csv   a file that cannot be opened
InitialFiles ==
    (TDir :> DiskDir)
    @@ (EmptyCsv :> DiskFile(<<>>, TRUE, 1))
    @@ (DataCsv :> DiskFile(<<89, 44, 97, 10, 49, 44, 50, 10>>, TRUE, 2))
    @@ (GoodJson :> DiskFile(<<91, 49, 93>>, TRUE, 3))
    @@ (BadJson :> DiskFile(<<123>>, TRUE, 4))
    @@ (BinFile :> DiskFile(<<255, 0, 195>>, TRUE, 5))
    @@ (TextFile :> DiskFile(<<195, 169, 13, 10>>, TRUE, 6))
    @@ (LockedFile :> DiskFile(<<120, 10>>, FALSE, 7))

\* The empty path is the working directory.
disk_exists(p) == p = <<>> \/ p \in DOMAIN disk.files

disk_is_file(p) == p \in DOMAIN disk.files /\ disk.files[p].is_file

disk_is_dir(p) == p = <<>> \/ (p \in DOMAIN disk.files /\ ~disk.files[p].is_file)

parent(p) == SubSeq(p, 1, Len(p) - 1)

\* str.lower and Path.suffix on a name of characters.
lower(c) ==
    IF \E k \in 1..Len(UpperCase) : UpperCase[k] = c
    THEN LowerCase[CHOOSE k \in 1..Len(UpperCase) : UpperCase[k] = c]
    ELSE c

lower_str(s) == [i \in 1..Len(s) |-> lower(s[i])]

suffix_of(n) ==
    LET dots == {i \in 1..Len(n) : n[i] = "."}
        last == CHOOSE i \in dots : \A j \in dots : j <= i
    IN  IF dots # {} /\ 1 < last /\ last < Len(n)
        THEN SubSeq(n, last, Len(n))
        ELSE <<>>

\* bytes.decode(encoding) for 'utf-8' and 'latin-1': ok is FALSE where
\* UnicodeDecodeError is raised.  The UTF-8 decoder covers sequences of one
\* and two bytes, the ones the files of the model hold.
RECURSIVE utf8_decode(_)
utf8_decode(b) ==
    IF b = <<>> THEN [ok |-> TRUE, text |-> <<>>]
    ELSE IF b[1] < 128
    THEN LET rest == utf8_decode(Tail(b))
         IN  [ok |-> rest.ok, text |-> <<b[1]>> \o rest.text]
    ELSE IF b[1] >= 194 /\ b[1] <= 223 /\ Len(b) >= 2 /\ b[2] >= 128 /\ b[2] <= 191
    THEN LET rest == utf8_decode(SubSeq(b, 3, Len(b)))
         IN  [ok |-> rest.ok,
              text |-> <<(b[1] - 192) * 64 + (b[2] - 128)>> \o rest.text]
    ELSE [ok |-> FALSE, text |-> <<>>]

decode(b, encoding) ==
    IF encoding = "latin-1" THEN [ok |-> TRUE, text |-> b] ELSE utf8_decode(b)

\* Text mode reads "\r\n" and "\r" as "\n".
RECURSIVE universal_newlines(_)
universal_newlines(t) ==
    IF t = <<>> THEN <<>>
    ELSE IF t[1] = 13 /\ Len(t) >= 2 /\ t[2] = 10
    THEN <<10>> \o universal_newlines(SubSeq(t, 3, Len(t)))
    ELSE IF t[1] = 13 THEN <<10>> \o universal_newlines(Tail(t))
    ELSE <<t[1]>> \o universal_newlines(Tail(t))

\* Mutant: no fallback to base64, the decoding error fails the call.
read_local_file_strict(file_path, as_text, encoding) ==
    IF ~disk_exists(file_path) THEN Failure("File not found", file_path)
    ELSE IF ~disk_is_file(file_path) THEN Failure("Not a file", file_path)
    ELSE LET file == disk.files[file_path]
             text == decode(file.bytes, encoding)
         IN  IF ~file.readable THEN Failure("OSError", file_path)
             ELSE IF as_text /\ ~text.ok THEN Failure("UnicodeDecodeError", file_path)
             ELSE IF as_text
             THEN [success |-> TRUE, content |-> universal_newlines(text.text),
                   encoding |-> encoding, size |-> Len(file.bytes),
                   modified |-> file.mtime]
             ELSE [success |-> TRUE, content |-> b64encode(file.bytes),
                   encoding |-> "base64", size |-> Len(file.bytes),
                   modified |-> file.mtime]

\* read_local_file: the returned dict.
read_local_file(file_path, as_text, encoding) ==
    IF ~disk_exists(file_path) THEN Failure("File not found", file_path)
    ELSE IF ~disk_is_file(file_path) THEN Failure("Not a file", file_path)
    ELSE LET file == disk.files[file_path]
             text == decode(file.bytes, encoding)
         IN  IF ~file.readable THEN Failure("OSError", file_path)
             ELSE IF as_text /\ text.ok
             THEN [success |-> TRUE, content |-> universal_newlines(text.text),
                   encoding |-> encoding, size |-> Len(file.bytes),
                   modified |-> file.mtime]
             ELSE [success |-> TRUE, content |-> b64encode(file.bytes),
                   encoding |-> "base64", size |-> Len(file.bytes),
                   modified |-> file.mtime]

ReadLocalFile(file_path, as_text, encoding) ==
    /\ result' = Call("read_local_file", <<file_path, as_text, encoding>>,
                      read_local_file(file_path, as_text, encoding))
    /\ UNCHANGED <<now, data_cache, issued, denied, home, net, disk, client, loop>>

\* f.readlines(): the lines with their "\n".
RECURSIVE readlines(_)
readlines(t) ==
    LET ends == {i \in 1..Len(t) : t[i] = 10}
        k == CHOOSE i \in ends : \A j \in ends : i <= j
    IN  IF t = <<>> THEN <<>>
        ELSE IF ends = {} THEN <<t>>
        ELSE <<SubSeq(t, 1, k)>> \o readlines(SubSeq(t, k + 1, Len(t)))

IsWhite(c) == c \in {32, 9, 10, 13}

RECURSIVE strip(_)
strip(t) ==
    IF t = <<>> THEN <<>>
    ELSE IF IsWhite(t[1]) THEN strip(Tail(t))
    ELSE IF IsWhite(t[Len(t)]) THEN strip(SubSeq(t, 1, Len(t) - 1))
    ELSE t

\* str.split(','), 44 being the comma.
RECURSIVE split(_)
split(t) ==
    LET commas == {i \in 1..Len(t) : t[i] = 44}
        k == CHOOSE i \in commas : \A j \in commas : i <= j
    IN  IF commas = {} THEN <<t>>
        ELSE <<SubSeq(t, 1, k - 1)>> \o split(SubSeq(t, k + 1, Len(t)))

\* The text open(path, 'r') yields: raised is TRUE where open or the read
\* raises (a file that cannot be opened, bytes that are not UTF-8).
open_text(path) ==
    LET file == disk.files[path]
        text == decode(file.bytes, "utf-8")
    IN  IF ~file.is_file \/ ~file.readable \/ ~text.ok
        THEN [raised |-> TRUE, text |-> <<>>]
        ELSE [raised |-> FALSE, text |-> universal_newlines(text.text)]

\* pd.read_csv: raises on what open raises on and on a file with no
\* columns (EmptyDataError); the frame is given by its columns and shape.
read_csv(path) ==
    LET file == open_text(path)
        lines == readlines(file.text)
    IN  IF file.raised \/ lines = <<>>
        THEN [raised |-> TRUE, columns |-> <<>>, shape |-> <<0, 0>>]
        ELSE [raised |-> FALSE, columns |-> split(strip(lines[1])),
              shape |-> <<Len(lines) - 1, Len(split(strip(lines[1])))>>]

\* json.load of the texts the .json files of the model hold: "[1]" is a
\* list, "{" is no JSON.
json_load(text) ==
    IF text = <<91, 49, 93>>
    THEN [raised |-> FALSE, data_type |-> "list", length |-> 1]
    ELSE [raised |-> TRUE, data_type |-> "", length |-> 0]

\* What a handler hands back when it is not a dict: the value None of a
\* function that ends without a return, or an exception that leaves it.
ReturnsNone == [returned |-> "None"]

Raises(exception) == [raised |-> exception]

DotCsv == <<".", "c", "s", "v">>

DotJson == <<".", "j", "s", "o", "n">>

\* validate_dataset.  The success dicts are given by file_type and the
\* fields create_config_template reads; dtypes, missing_values and sample
\* are left out.
validate_dataset(file_path) ==
    LET extension == lower_str(suffix_of(file_path[Len(file_path)]))
        df == read_csv(file_path)
        f == open_text(file_path)
        lines == readlines(f.text)
        data == json_load(f.text)
    IN  IF ~disk_exists(file_path) THEN Failure("File not found", file_path)
        ELSE IF extension = DotCsv
        THEN IF disk.pandas
             THEN IF df.raised THEN Failure("Exception", file_path)
                  ELSE [success |-> TRUE, file_type |-> "csv", shape |-> df.shape,
                        columns |-> df.columns]
             ELSE IF f.raised THEN Failure("Exception", file_path)
                  ELSE IF lines # <<>>
                  THEN [success |-> TRUE, file_type |-> "csv",
                        headers |-> split(strip(lines[1])),
                        row_count |-> Len(lines) - 1,
                        sample_rows |-> [i \in 1..(IF Len(lines) - 1 < 5
                                                   THEN Len(lines) - 1 ELSE 5)
                                         |-> strip(lines[i + 1])]]
                  ELSE ReturnsNone
        ELSE IF extension = DotJson
        THEN IF f.raised \/ data.raised THEN Failure("Exception", file_path)
             ELSE [success |-> TRUE, file_type |-> "json",
                   data_type |-> data.data_type, length |-> data.length]
        ELSE [success |-> TRUE, file_type |-> extension,
              size |-> Len(disk.files[file_path].bytes),
              message |-> "File type not specifically validated"]

ValidateDataset(file_path) ==
    /\ result' = Call("validate_dataset", <<file_path>>, validate_dataset(file_path))
    /\ UNCHANGED <<now, data_cache, issued, denied, home, net, disk, client, loop>>

\* binascii.a2b_base64 as base64.b64decode calls it (not strict): '=' is 64.
\* quad_pos is the place in the group of four, leftchar the bits not yet
\* written, pads the '=' seen in a row.
RECURSIVE a2b_base64(_, _, _, _, _)
a2b_base64(s, quad_pos, leftchar, pads, out) ==
    IF s = <<>>
    THEN [ok |-> quad_pos = 0, bytes |-> out]
    ELSE IF s[1] = 64
    THEN IF quad_pos >= 2 /\ quad_pos + pads + 1 >= 4
         THEN [ok |-> TRUE, bytes |-> out]
         ELSE a2b_base64(Tail(s), quad_pos, leftchar,
                         IF quad_pos >= 2 THEN pads + 1 ELSE pads, out)
    ELSE IF quad_pos = 0
    THEN a2b_base64(Tail(s), 1, s[1], 0, out)
    ELSE IF quad_pos = 1
    THEN a2b_base64(Tail(s), 2, s[1] % 16, 0,
                    Append(out, leftchar * 4 + s[1] \div 16))
    ELSE IF quad_pos = 2
    THEN a2b_base64(Tail(s), 3, s[1] % 4, 0,
                    Append(out, leftchar * 16 + s[1] \div 4))
    ELSE a2b_base64(Tail(s), 0, 0, 0, Append(out, leftchar * 64 + s[1]))

\* Mutant: a decoder that drops the last byte of a padded group.
b64decode_short(content_b64) ==
    LET d == a2b_base64(content_b64, 0, 0, 0, <<>>)
    IN  IF d.ok /\ content_b64 # <<>> /\ content_b64[Len(content_b64)] = 64
        THEN [ok |-> TRUE, bytes |-> SubSeq(d.bytes, 1, Len(d.bytes) - 1)]
        ELSE d

\* base64.b64decode: ok is FALSE where binascii.Error is raised.
b64decode(content_b64) == a2b_base64(content_b64, 0, 0, 0, <<>>)

Prefixes(p) == {SubSeq(p, 1, n) : n \in 1..Len(p)}

\* path.parent.mkdir(parents=True, exist_ok=True): raises when a name on
\* the way is a file, else makes the directories that are missing.
mkdir(files, p) ==
    IF \E q \in Prefixes(p) : q \in DOMAIN files /\ files[q].is_file
    THEN [raised |-> TRUE, files |-> files]
    ELSE [raised |-> FALSE,
          files |-> [q \in DOMAIN files \cup Prefixes(p) |->
                        IF q \in DOMAIN files THEN files[q] ELSE DiskDir]]

\* path.write_bytes: raises when the parent is no directory, the path is a
\* directory or the file cannot be opened.
write_bytes(files, p, content) ==
    IF \/ ~(parent(p) = <<>> \/
            (parent(p) \in DOMAIN files /\ ~files[parent(p)].is_file))
       \/ p = <<>>
       \/ (p \in DOMAIN files /\ (~files[p].is_file \/ ~files[p].readable))
    THEN [raised |-> TRUE, files |-> files]
    ELSE [raised |-> FALSE,
          files |-> [q \in DOMAIN files \cup {p} |->
                        IF q = p THEN DiskFile(content, TRUE, now) ELSE files[q]]]

\* save_download_locally: the returned dict and the files it leaves.
save_download_locally(content_b64, target_path, create_dirs) ==
    LET made == IF create_dirs THEN mkdir(disk.files, parent(target_path))
                ELSE [raised |-> FALSE, files |-> disk.files]
        content == b64decode(content_b64)
        written == write_bytes(made.files, target_path, content.bytes)
    IN  IF made.raised
        THEN [ret |-> Failure("FileExistsError", target_path), files |-> disk.files]
        ELSE IF ~content.ok
        THEN [ret |-> Failure("binascii.Error", target_path), files |-> made.files]
        ELSE IF written.raised
        THEN [ret |-> Failure("OSError", target_path), files |-> made.files]
        ELSE [ret |-> [success |-> TRUE, saved_path |-> target_path,
                       size |-> Len(content.bytes)],
              files |-> written.files]

SaveDownloadLocally(content_b64, target_path, create_dirs) ==
    LET done == save_download_locally(content_b64, target_path, create_dirs)
    IN  /\ disk' = [disk EXCEPT !.files = done.files]
        /\ result' = Call("save_download_locally",
                          <<content_b64, target_path, create_dirs>>, done.ret)
        /\ UNCHANGED <<now, data_cache, issued, denied, home, net, client, loop>>

\* str.lower on code points.
lower_text(t) == [i \in 1..Len(t) |-> IF t[i] >= 65 /\ t[i] <= 90 THEN t[i] + 32 ELSE t[i]]

\* 'target', 'label', 'y', 'class', 'output'
LikelyLabels ==
    {<<116, 97, 114, 103, 101, 116>>, <<108, 97, 98, 101, 108>>, <<121>>,
     <<99, 108, 97, 115, 115>>, <<111, 117, 116, 112, 117, 116>>}

DefaultConfig(task_type) ==
    [task |-> task_type, label |-> <<116, 97, 114, 103, 101, 116>>,
     time_limit |-> 300, presets |-> "best_quality", eval_metric |-> "auto",
     holdout_frac |-> "0.2", num_trials |-> 5]

\* json.dumps(config, indent=2), given by the value it writes.
json_dumps(config) == [json |-> config]

\* create_config_template; no dataset_path (None, or the empty string that
\* `if dataset_path:` takes for it) is the empty path.  validation["success"]
\* raises TypeError when validate_dataset handed back None, and nothing
\* catches it.
create_config_template(dataset_path, task_type) ==
    LET validation == validate_dataset(dataset_path)
        config == DefaultConfig(task_type)
        likely_labels ==
            IF validation.success /\ "columns" \in DOMAIN validation
            THEN SelectSeq(validation.columns,
                           LAMBDA col : lower_text(col) \in LikelyLabels)
            ELSE <<>>
        chosen == IF likely_labels # <<>>
                  THEN [config EXCEPT !.label = likely_labels[1]]
                  ELSE config
    IN  IF dataset_path = <<>>
        THEN [success |-> TRUE, config |-> config, yaml_content |-> json_dumps(config)]
        ELSE IF validation = ReturnsNone THEN Raises("TypeError")
        ELSE [success |-> TRUE, config |-> chosen, yaml_content |-> json_dumps(chosen)]

CreateConfigTemplate(dataset_path, task_type) ==
    /\ result' = Call("create_config_template", <<dataset_path, task_type>>,
                      create_config_template(dataset_path, task_type))
    /\ UNCHANGED <<now, data_cache, issued, denied, home, net, disk, client, loop>>

\* pandas gets installed into, or removed from, the server's environment.
InstallPandas(installed) ==
    /\ disk.pandas # installed
    /\ disk' = [disk EXCEPT !.pandas = installed]
    /\ result' = NoCall
    /\ UNCHANGED <<now, data_cache, issued, denied, home, net, client, loop>>

-----------------------------------------------------------------------------
(* MCPClient (src/mcp_client.py).                                          *)
(*                                                                         *)
(* client.self is the MCPClient object: its server_url and its field       *)
(* client, "None" or a fastmcp Client that is entered or not.              *)
(* client.reachable tells whether the server answers, client.established   *)
(* whether a connect() of this object has succeeded, client.sent lists the *)
(* calls that reached the fastmcp Client.                                  *)

GoodUrl == "http://localhost:8005/mcp"

\* A string Client() rejects: the constructor raises.
BadUrl == "not a url"

MCPClient(server_url) ==
    [server_url |-> server_url, client |-> "None", entered |-> FALSE]

MaxClientCalls == 2

New(server_url) ==
    /\ client' = [client EXCEPT !.self = MCPClient(server_url),
                                !.established = FALSE, !.sent = <<>>]
    /\ result' = NoCall
    /\ UNCHANGED <<now, data_cache, issued, denied, home, net, disk, loop>>

\* connect: the object afterwards and what the call hands back.
connect(self, reachable) ==
    IF self.server_url = BadUrl
    THEN [self |-> self, ret |-> Raises("Failed to connect to MCP server")]
    ELSE IF ~reachable
    THEN [self |-> [self EXCEPT !.client = "Client", !.entered = FALSE],
          ret |-> Raises("Failed to connect to MCP server")]
    ELSE [self |-> [self EXCEPT !.client = "Client", !.entered = TRUE],
          ret |-> [returned |-> "None"]]

Connect ==
    LET done == connect(client.self, client.reachable)
    IN  /\ client' = [client EXCEPT !.self = done.self,
                                    !.established = @ \/ "returned" \in DOMAIN done.ret]
        /\ result' = Call("connect", <<>>, done.ret)
        /\ UNCHANGED <<now, data_cache, issued, denied, home, net, disk, loop>>

\* `if not self.client`
NotConnected(self) == self.client = "None"

get_available_tools(self) ==
    IF NotConnected(self) THEN Raises("Not connected to MCP server")
    ELSE [returned |-> <<"run_autogluon_pipeline">>]

GetAvailableTools ==
    /\ result' = Call("get_available_tools", <<>>, get_available_tools(client.self))
    /\ UNCHANGED <<now, data_cache, issued, denied, home, net, disk, client, loop>>

\* call_tool: past the guard the call goes to the fastmcp Client, which
\* raises its own error when it was never entered or the server is gone.
call_tool(self, tool_name, reachable) ==
    IF NotConnected(self) THEN Raises("Not connected to MCP server")
    ELSE IF ~self.entered THEN Raises("Client is not connected")
    ELSE IF ~reachable THEN Raises("ConnectionError")
    ELSE [returned |-> tool_name]

ClientCallTool(tool_name) ==
    /\ Len(client.sent) < MaxClientCalls
    /\ client' = [client EXCEPT !.sent = IF NotConnected(client.self) THEN @
                                         ELSE Append(@, tool_name)]
    /\ result' = Call("call_tool", <<tool_name>>,
                      call_tool(client.self, tool_name, client.reachable))
    /\ UNCHANGED <<now, data_cache, issued, denied, home, net, disk, loop>>

\* __aexit__ leaves the fastmcp Client, if there is one.
Exit ==
    /\ client' = [client EXCEPT !.self.entered = FALSE]
    /\ result' = Call("__aexit__", <<>>, [returned |-> "None"])
    /\ UNCHANGED <<now, data_cache, issued, denied, home, net, disk, loop>>

\* The server goes down or comes back.
Reach(reachable) ==
    /\ client.reachable # reachable
    /\ client' = [client EXCEPT !.reachable = reachable]
    /\ result' = NoCall
    /\ UNCHANGED <<now, data_cache, issued, denied, home, net, disk, loop>>

-----------------------------------------------------------------------------
(* The event loop of the local server.  prepare_local_folder,              *)
(* get_cached_data and clear_cache are coroutines run by one loop: a call  *)
(* that was started runs until it awaits or returns, and only then does    *)
(* another call run.  loop.tasks holds, for each of two clients, the call  *)
(* it has in progress: its arguments, its place in the code (pc), the      *)
(* loop index i, the variables of the walk (acc), the snapshot             *)
(* list(data_cache.items()) or the entry `cached` (items) and the list     *)
(* `expired`.  loop.running is the client whose call holds the loop.       *)
(* raced, kept for the properties, tells that another call stored an entry *)
(* while this one was in progress; loop.last_raced is that flag of the     *)
(* call that has just returned; loop.reused holds the ids under which an   *)
(* entry was stored over an expired one.                                   *)

Clients == {"c1", "c2"}

EmptyAcc ==
    [file_contents |-> NoFiles, total_size |-> 0, skipped_files |-> <<>>,
     raised |-> FALSE]

Task(op, folder_path, cache_id) ==
    [op |-> op, folder_path |-> folder_path, cache_id |-> cache_id, pc |-> "start",
     i |-> 0, acc |-> EmptyAcc, items |-> <<>>, expired |-> <<>>, raced |-> FALSE]

IdleTask == [Task("idle", "", <<>>) EXCEPT !.pc = "done"]

\* Mutant: every statement is followed by an await.
AwaitsAtEveryStep(op, pc) == TRUE

\* The places at which a handler awaits: prepare_local_folder (lines
\* 54-132), get_cached_data (146-167) and clear_cache (550-575) hold no
\* await.
AwaitsAt(op, pc) == FALSE

\* list(data_cache.items()), in some order.
RECURSIVE Items(_)
Items(cache) ==
    IF DOMAIN cache = {} THEN <<>>
    ELSE LET cid == CHOOSE c \in DOMAIN cache : TRUE
         IN  <<[cid |-> cid, cached |-> cache[cid]]>>
             \o Items([c \in DOMAIN cache \ {cid} |-> cache[c]])

\* A step hands back the task afterwards, the cache it leaves, whether the
\* handler has returned, and then the dict it returned.
Goes(task, cache) == [task |-> task, cache |-> cache, done |-> FALSE, ret |-> <<>>]

Returns(ret, cache) == [task |-> IdleTask, cache |-> cache, done |-> TRUE, ret |-> ret]

\* Mutant: the entry is stored before the walk and filled while it goes on.
prepare_step_publishing(t) ==
    LET files == rglob(t.folder_path)
        acc == WalkStep(t.acc, files[t.i], t.folder_path, DefaultMaxFileSize, <<>>)
        cache_id == CacheId(now, t.folder_path)
    IN  IF t.pc = "start"
        THEN IF ~Exists(t.folder_path)
             THEN Returns(Failure("Path not found", t.folder_path), data_cache)
             ELSE IF ~IsDir(t.folder_path)
             THEN Returns(Failure("Not a directory", t.folder_path), data_cache)
             ELSE Goes([t EXCEPT !.pc = IF files = <<>> THEN "put" ELSE "walk", !.i = 1],
                       Put(data_cache, cache_id, Entry(EmptyAcc, t.folder_path)))
        ELSE IF t.pc = "walk"
        THEN IF acc.raised THEN Returns(Failure("OSError", t.folder_path), data_cache)
             ELSE Goes([t EXCEPT !.acc = acc, !.i = @ + 1,
                                 !.pc = IF t.i = Len(files) THEN "put" ELSE "walk"],
                       Put(data_cache, cache_id, Entry(acc, t.folder_path)))
        ELSE Returns([success |-> TRUE, cache_id |-> cache_id, summary |-> Summary(t.acc)],
                     Put(data_cache, cache_id, Entry(t.acc, t.folder_path)))

\* prepare_local_folder step by step: the checks of lines 57-68, one
\* iteration of the loop of lines 80-103 at a time, then lines 106-125.
prepare_step(t) ==
    LET files == rglob(t.folder_path)
        acc == WalkStep(t.acc, files[t.i], t.folder_path, DefaultMaxFileSize, <<>>)
        cache_id == CacheId(now, t.folder_path)
    IN  IF t.pc = "start"
        THEN IF ~Exists(t.folder_path)
             THEN Returns(Failure("Path not found", t.folder_path), data_cache)
             ELSE IF ~IsDir(t.folder_path)
             THEN Returns(Failure("Not a directory", t.folder_path), data_cache)
             ELSE Goes([t EXCEPT !.pc = IF files = <<>> THEN "put" ELSE "walk", !.i = 1],
                       data_cache)
        ELSE IF t.pc = "walk"
        THEN IF acc.raised THEN Returns(Failure("OSError", t.folder_path), data_cache)
             ELSE Goes([t EXCEPT !.acc = acc, !.i = @ + 1,
                                 !.pc = IF t.i = Len(files) THEN "put" ELSE "walk"],
                       data_cache)
        ELSE Returns([success |-> TRUE, cache_id |-> cache_id, summary |-> Summary(t.acc)],
                     Put(data_cache, cache_id, Entry(t.acc, t.folder_path)))

\* The sweep of clear_cache step by step: line 565 takes the snapshot, then
\* for each item line 566-567 tests its age and line 568-569 deletes.
sweep_step(t) ==
    LET next == IF t.i = Len(t.items) THEN "return" ELSE "test"
    IN  IF t.pc = "start"
        THEN Goes([t EXCEPT !.items = Items(data_cache), !.i = 1,
                            !.pc = IF DOMAIN data_cache = {} THEN "return" ELSE "test"],
                  data_cache)
        ELSE IF t.pc = "test"
        THEN IF IsExpired(Age(t.items[t.i].cached.timestamp))
             THEN Goes([t EXCEPT !.pc = "del"], data_cache)
             ELSE Goes([t EXCEPT !.pc = next, !.i = @ + 1], data_cache)
        ELSE IF t.pc = "del"
        THEN Goes([t EXCEPT !.pc = next, !.i = @ + 1,
                            !.expired = Append(@, t.items[t.i].cid)],
                  Remove(data_cache, {t.items[t.i].cid}))
        ELSE Returns([success |-> TRUE,
                      message |-> <<"Cleared expired caches", Len(t.expired)>>,
                      active_caches |-> Cardinality(DOMAIN data_cache)],
                     data_cache)

\* get_cached_data step by step: lines 146-152, lines 155-156, then the
\* del of line 157 or the return of line 163.
get_step(t) ==
    IF t.pc = "start"
    THEN IF t.cache_id \notin DOMAIN data_cache
         THEN Returns(Failure("Cache ID not found", t.cache_id), data_cache)
         ELSE Goes([t EXCEPT !.pc = "test",
                             !.items = <<[cid |-> t.cache_id,
                                          cached |-> data_cache[t.cache_id]]>>],
                   data_cache)
    ELSE IF t.pc = "test"
    THEN IF IsExpired(Age(t.items[1].cached.timestamp))
         THEN Goes([t EXCEPT !.pc = "del"], data_cache)
         ELSE Returns([success |-> TRUE,
                       folder_structure |-> t.items[1].cached.folder_structure,
                       file_contents |-> t.items[1].cached.file_contents],
                      data_cache)
    ELSE Returns(Failure("Cache expired", Age(t.items[1].cached.timestamp)),
                 Remove(data_cache, {t.cache_id}))

\* clear_cache with an id (lines 550-561) is one step.
clear_step(t) ==
    Returns(clear_cache(t.cache_id).ret, clear_cache(t.cache_id).cache)

step(t) ==
    IF t.op = "prepare_local_folder" THEN prepare_step(t)
    ELSE IF t.op = "get_cached_data" THEN get_step(t)
    ELSE IF t.op = "clear_cache" /\ Truthy(t.cache_id) THEN clear_step(t)
    ELSE sweep_step(t)

ArgsOf(t) ==
    IF t.op = "prepare_local_folder"
    THEN <<t.folder_path, DefaultMaxFileSize, <<>>>>
    ELSE <<t.cache_id>>

\* A request arrives: the call is created and waits for the loop.  A lone
\* call is c1's.
Submit(c, task) ==
    /\ loop.tasks[c].op = "idle"
    /\ c = "c1" \/ loop.tasks["c1"].op # "idle"
    /\ task.op = "prepare_local_folder" =>
           \/ CacheId(now, task.folder_path) \in issued
           \/ Cardinality(issued) < MaxPrepares
    /\ loop' = [loop EXCEPT !.tasks[c] = task, !.last_raced = FALSE]
    /\ result' = NoCall
    /\ UNCHANGED <<now, data_cache, issued, denied, home, net, disk, client>>

\* The loop runs one step of c's call.
Run(c) ==
    LET t == loop.tasks[c]
        s == step(t)
        stored == \E cid \in DOMAIN s.cache :
                      cid \notin DOMAIN data_cache \/ s.cache[cid] # data_cache[cid]
        gives_up == s.done \/ AwaitsAt(s.task.op, s.task.pc)
    IN  /\ t.op # "idle"
        /\ loop.running \in {"", c}
        /\ data_cache' = s.cache
        /\ issued' = IF s.done /\ t.op = "prepare_local_folder" /\ s.ret.success
                     THEN issued \cup {s.ret.cache_id} ELSE issued
        /\ loop' = [tasks |-> [d \in Clients |->
                                  IF d = c THEN [s.task EXCEPT !.raced = ~s.done /\ t.raced]
                                  ELSE IF stored /\ loop.tasks[d].op # "idle"
                                  THEN [loop.tasks[d] EXCEPT !.raced = TRUE]
                                  ELSE loop.tasks[d]],
                    running |-> IF gives_up THEN "" ELSE c,
                    last_raced |-> s.done /\ t.raced,
                    reused |-> loop.reused \cup
                        {cid \in DOMAIN s.cache \cap DOMAIN data_cache :
                            /\ s.cache[cid] # data_cache[cid]
                            /\ IsExpired(Age(data_cache[cid].timestamp))}]
        /\ result' = IF s.done THEN Call(t.op, ArgsOf(t), s.ret) ELSE NoCall
        /\ UNCHANGED <<now, denied, home, net, disk, client>>

\* The clock is read between calls.
Quiet == \A c \in Clients : loop.tasks[c].op = "idle"

-----------------------------------------------------------------------------
(* The calls a client makes.                                               *)

MaxFileSizes == {DefaultMaxFileSize, 10, 9}

StarDotLog == <<"*">> \o DotLog

StarDotTmp == <<"*", ".", "t", "m", "p">>

SkipPatternLists == {<<>>, <<StarDotLog>>, <<StarDotTmp, StarDotLog>>}

\* A well-formed id no call has returned.
UnknownId == <<0, 0>>

CacheIdArgs == DOMAIN data_cache \cup issued \cup {UnknownId, EmptyString}

Init ==
    /\ now = 0
    /\ data_cache = [i \in {} |-> <<>>]
    /\ result = NoCall
    /\ issued = {}
    /\ denied = {}
    /\ home = [p \in {} |-> <<>>]
    /\ net = [up |-> DOMAIN mcpServers, forwarded |-> <<>>]
    /\ disk = [files |-> InitialFiles, pandas |-> TRUE]
    /\ client = [self |-> MCPClient(GoodUrl), reachable |-> TRUE,
                 established |-> FALSE, sent |-> <<>>]
    /\ loop = [tasks |-> [c \in Clients |-> IdleTask], running |-> "",
               last_raced |-> FALSE, reused |-> {}]

\* The cache over time: folders prepared with the default arguments, looked
\* up, cleared and swept while the clock moves.
Next ==
    \/ \E folder_path \in {"/data", "/file.txt"} :
           PrepareLocalFolder(folder_path, DefaultMaxFileSize, <<>>)
    \/ \E cache_id \in CacheIdArgs : GetCachedData(cache_id)
    \/ \E cache_id \in CacheIdArgs \cup {None} : ClearCache(cache_id)
    \/ ClockForward
    \/ ClockSetBack

Spec == Init /\ [][Next]_vars

\* Folder preparation over every folder, size threshold and pattern list of
\* the model, at one instant.
NextPrepare ==
    \E folder_path \in Paths, max_file_size \in MaxFileSizes,
       skip_patterns \in SkipPatternLists :
        PrepareLocalFolder(folder_path, max_file_size, skip_patterns)

SpecPrepare == Init /\ [][NextPrepare]_vars

MaxExploreDepth == 3

ExplorePaths == {<< <<114>> >>, << <<114>>, <<97>> >>,
                 << <<114>>, <<122, 46, 116, 120, 116>> >>, << <<109>> >>}

\* Directory exploration from r, r/a, r/z.txt and the missing m, while
\* directories lose and regain their read permission.
NextExplore ==
    \/ \E directory_path \in ExplorePaths, max_depth \in 0..MaxExploreDepth,
          include_hidden \in BOOLEAN :
           ExploreDirectory(directory_path, max_depth, include_hidden)
    \/ \E d \in ExploreDirs : Chmod(d)

SpecExplore == Init /\ [][NextExplore]_vars

CredsPath == <<"work", "creds.env">>

CredsPaths == {CredsPath} \cup {common_paths(CredsPath)[k] : k \in 1..3}

\* Credentials read from work/creds.env while that file and the three
\* fallback files come and go.
NextCreds ==
    \/ ReadCredentials(CredsPath, None)
    \/ \E path \in CredsPaths, file \in CredFiles : WriteFile(path, file)
    \/ \E path \in CredsPaths : RemoveFile(path)

SpecCreds == Init /\ [][NextCreds]_vars

\* 'remote_check_status', 'local_explore_directory' (src/simple_test.py)
\* and 'unknown_prefix_x'.
remote_check_status ==
    <<"r", "e", "m", "o", "t", "e", "_", "c", "h", "e", "c", "k", "_",
      "s", "t", "a", "t", "u", "s">>

local_explore_directory ==
    <<"l", "o", "c", "a", "l", "_", "e", "x", "p", "l", "o", "r", "e", "_",
      "d", "i", "r", "e", "c", "t", "o", "r", "y">>

unknown_prefix_x ==
    <<"u", "n", "k", "n", "o", "w", "n", "_", "p", "r", "e", "f", "i", "x", "_", "x">>

ToolNames == {remote_check_status, local_explore_directory, unknown_prefix_x}

ToolArguments == {<<>>, << <<"max_depth", 1>> >>}

\* What a backend may answer.
Responses == {[success |-> TRUE, content |-> "ok"],
              Failure("Task not found", <<>>)}

\* Calls through the proxy while the backends go down and come back.
NextProxy ==
    \/ \E tool_name \in ToolNames, arguments \in ToolArguments, response \in Responses :
           CallTool(tool_name, arguments, response)
    \/ \E server \in DOMAIN mcpServers : BackendDown(server)
    \/ \E server \in DOMAIN mcpServers : BackendUp(server)

SpecProxy == Init /\ [][NextProxy]_vars

\* The base64 strings the cache holds, 'Q' and 'QQQ' (no base64 of anything).
CachedContents ==
    UNION {{data_cache[i].file_contents[k] : k \in DOMAIN data_cache[i].file_contents} :
              i \in DOMAIN data_cache}

Malformed == {<<16>>, <<16, 16, 16>>}

FilePaths == {EmptyCsv, DataCsv, GoodJson, BadJson, BinFile, TextFile, LockedFile,
              MissingFile, TDir}

TargetPaths == {OutFile, TDir, LockedFile}

\* Every tool of the local server, called at one instant, while pandas
\* comes and goes.
NextTools ==
    \/ \E folder_path \in {"/data", "/locked", "/none"} :
           PrepareLocalFolder(folder_path, DefaultMaxFileSize, <<>>)
    \/ \E cache_id \in CacheIdArgs : GetCachedData(cache_id)
    \/ \E cache_id \in CacheIdArgs \cup {None} : ClearCache(cache_id)
    \/ \E directory_path \in ExplorePaths, include_hidden \in BOOLEAN :
           ExploreDirectory(directory_path, 1, include_hidden)
    \/ \E file_path \in FilePaths, as_text \in BOOLEAN,
          encoding \in {"utf-8", "latin-1"} :
           ReadLocalFile(file_path, as_text, encoding)
    \/ \E file_path \in FilePaths : ValidateDataset(file_path)
    \/ ReadCredentials(CredsPath, None)
    \/ \E content_b64 \in CachedContents \cup {<<16>>},
          target_path \in {OutFile, NestedOutFile, TDir}, create_dirs \in BOOLEAN :
           SaveDownloadLocally(content_b64, target_path, create_dirs)
    \/ \E dataset_path \in FilePaths \cup {<<>>} :
           CreateConfigTemplate(dataset_path, "auto")
    \/ \E installed \in BOOLEAN : InstallPandas(installed)

SpecTools == Init /\ [][NextTools]_vars

\* Files of a prepared folder saved again, well-formed or not, with and
\* without their directories.
NextSave ==
    \/ PrepareLocalFolder("/logs", DefaultMaxFileSize, <<>>)
    \/ \E content_b64 \in CachedContents \cup Malformed,
          target_path \in TargetPaths, create_dirs \in BOOLEAN :
           SaveDownloadLocally(content_b64, target_path, create_dirs)

SpecSave == Init /\ [][NextSave]_vars

\* Files read as text and as base64 while files are saved over them.
NextRead ==
    \/ \E file_path \in FilePaths \cup {OutFile}, as_text \in BOOLEAN,
          encoding \in {"utf-8", "latin-1"} :
           ReadLocalFile(file_path, as_text, encoding)
    \/ \E bytes \in {<<255, 0, 195>>, <<195, 169, 13, 10>>, <<104, 105>>, <<195>>},
          target_path \in {OutFile, TextFile} :
           SaveDownloadLocally(b64encode(bytes), target_path, FALSE)

SpecRead == Init /\ [][NextRead]_vars

\* An MCPClient made, connected, used and left while its server comes and
\* goes.
NextClient ==
    \/ \E server_url \in {GoodUrl, BadUrl} : New(server_url)
    \/ Connect
    \/ GetAvailableTools
    \/ \E tool_name \in {"run_autogluon_pipeline", "no_such_tool"} :
           ClientCallTool(tool_name)
    \/ Exit
    \/ \E reachable \in BOOLEAN : Reach(reachable)

SpecClient == Init /\ [][NextClient]_vars

\* Two clients send prepare_local_folder, get_cached_data and clear_cache
\* calls that the loop runs step by step; between calls the clock moves
\* within the first day.
NextLoop ==
    \/ \E c \in Clients, folder_path \in {"/data", "/locked"} :
           Submit(c, Task("prepare_local_folder", folder_path, <<>>))
    \/ \E c \in Clients, cache_id \in DOMAIN data_cache \cup {UnknownId} :
           Submit(c, Task("get_cached_data", "", cache_id))
    \/ \E c \in Clients, cache_id \in DOMAIN data_cache \cup {None} :
           Submit(c, Task("clear_cache", "", cache_id))
    \/ \E c \in Clients : Run(c)
    \/ Quiet /\ ClockForward /\ now' < Day
    \/ Quiet /\ ClockSetBack

SpecLoop == Init /\ [][NextLoop]_vars

-----------------------------------------------------------------------------
(* Properties of the cache over time (checked under Spec).                 *)

IsGet(call) == call.op = "get_cached_data"

IsClear(call) == call.op = "clear_cache"

IsFailure(call, kind) == ~call.ret.success /\ call.ret.error.kind = kind

\* C1: a get_cached_data on an entry whose age T' - T is at least the TTL
\* returns the expired failure, never the entry's contents.
C1_GetAtOrAfterTTLReportsExpired ==
    [][\A id \in DOMAIN data_cache :
          (/\ IsGet(result')
           /\ result'.args = <<id>>
           /\ now - data_cache[id].timestamp >= TTL)
          => IsFailure(result', "Cache expired")]_vars

\* C2: a get_cached_data on an entry that is in the cache, at a wall-clock
\* time T' with T' - T below the TTL, returns success with exactly the
\* folder_structure and file_contents of the entry.
C2_ReadAfterWriteWithinTTL ==
    [][\A id \in DOMAIN data_cache :
          (/\ IsGet(result')
           /\ result'.args = <<id>>
           /\ now - data_cache[id].timestamp < TTL)
          => /\ result'.ret.success
             /\ result'.ret.folder_structure = data_cache[id].folder_structure
             /\ result'.ret.file_contents = data_cache[id].file_contents]_vars

\* C3: a get_cached_data that reports its entry expired has removed that
\* entry and no other; as long as the id is absent, get_cached_data and
\* clear_cache for it report 'Cache ID not found' and change nothing.
C3_ExpiredGetRemovesThatEntryOnly ==
    [][/\ (IsGet(result') /\ IsFailure(result', "Cache expired"))
          => /\ result'.args[1] \in DOMAIN data_cache
             /\ result'.args[1] \notin DOMAIN data_cache'
             /\ data_cache' = Remove(data_cache, {result'.args[1]})
       /\ \A id \in issued \ DOMAIN data_cache :
             ((IsGet(result') \/ IsClear(result')) /\ result'.args = <<id>>)
             => /\ IsFailure(result', "Cache ID not found")
                /\ data_cache' = data_cache]_vars

\* C3 witness: a lookup has just reported an issued id expired, the id is
\* gone, and another entry is still cached.
C3_Witness ==
    /\ IsGet(result)
    /\ IsFailure(result, "Cache expired")
    /\ result.args[1] \in issued \ DOMAIN data_cache
    /\ DOMAIN data_cache # {}

\* C4: get_cached_data with an id no successful prepare_local_folder has
\* returned fails with 'Cache ID not found' and leaves data_cache unchanged.
C4_UnissuedIdNotFound ==
    [][(IsGet(result') /\ result'.args[1] \notin issued)
          => /\ IsFailure(result', "Cache ID not found")
             /\ data_cache' = data_cache]_vars

\* C4 witness: a lookup of an id never issued has failed while the cache
\* holds entries.
C4_Witness ==
    /\ IsGet(result)
    /\ result.args[1] \notin issued
    /\ IsFailure(result, "Cache ID not found")
    /\ DOMAIN data_cache # {}

\* C5: clear_cache without an id removes exactly the entries whose age
\* now - timestamp exceeds the TTL, reports their number in its message and
\* the number of entries left as active_caches.
C5_SweepRemovesExactlyTheExpired ==
    [][(IsClear(result') /\ result'.args = <<None>>)
          => LET old == {id \in DOMAIN data_cache :
                            now - data_cache[id].timestamp > TTL}
             IN  /\ data_cache' = Remove(data_cache, old)
                 /\ result'.ret.success
                 /\ result'.ret.message = <<"Cleared expired caches", Cardinality(old)>>
                 /\ result'.ret.active_caches = Cardinality(DOMAIN data_cache')]_vars

\* C6: clear_cache(cache_id) with an id in data_cache removes exactly that
\* entry; with an id that is absent it fails with 'Cache ID not found' and
\* leaves data_cache unchanged.
C6_ClearByIdRemovesExactlyThatEntry ==
    [][(IsClear(result') /\ result'.args # <<None>>)
          => IF result'.args[1] \in DOMAIN data_cache
             THEN /\ result'.ret.success
                  /\ data_cache' = Remove(data_cache, {result'.args[1]})
             ELSE /\ IsFailure(result', "Cache ID not found")
                  /\ data_cache' = data_cache]_vars

-----------------------------------------------------------------------------
(* Properties of folder preparation (checked under SpecPrepare).           *)

IsPrepare(call) == call.op = "prepare_local_folder"

EndsWith(name, suffix) ==
    /\ Len(name) >= Len(suffix)
    /\ SubSeq(name, Len(name) - Len(suffix) + 1, Len(name)) = suffix

IsLogFile(f) == f.is_file /\ EndsWith(f.rel[Len(f.rel)], DotLog)

\* The patterns of SkipPatternLists are a * followed by a suffix.
MatchedByAPattern(f, skip_patterns) ==
    \E k \in 1..Len(skip_patterns) : EndsWith(f.rel[Len(f.rel)], Tail(skip_patterns[k]))

\* The files of the last call's folder, and what the call cached.
CallFiles == rglob(result.args[1])

CallContents == data_cache[result.ret.cache_id].file_contents

CallSummary == result.ret.summary

\* The regular files the call left out of file_contents, in visit order.
NotIncluded(f) == f.is_file /\ f.rel \notin DOMAIN CallContents

CallLeftOut == SelectSeq(CallFiles, NotIncluded)

InDetails(f) ==
    \E k \in 1..Len(CallSummary.skipped_details) :
        CallSummary.skipped_details[k].path = FullPath(result.args[1], f.rel)

\* The lines of the loop's skipped_files list.
CallSkippedList ==
    ReadFolder(result.args[1], result.args[2], result.args[3]).skipped_files

SkipsLogFiles(call) ==
    /\ IsPrepare(call)
    /\ call.ret.success
    /\ \E k \in 1..Len(call.args[3]) : call.args[3][k] = StarDotLog

\* C7 as stated: with '*.log' among skip_patterns every .log file under the
\* root appears in summary.skipped_details and is no key of file_contents.
C7_EveryLogFileInSkippedDetails ==
    SkipsLogFiles(result) =>
        \A i \in 1..Len(CallFiles) :
            IsLogFile(CallFiles[i]) =>
                /\ InDetails(CallFiles[i])
                /\ CallFiles[i].rel \notin DOMAIN CallContents

\* C7 amended: with '*.log' among skip_patterns every .log file under the
\* root is no key of file_contents and is counted in skipped_files; it
\* appears in skipped_details exactly when fewer than 10 files were left out
\* before it in visit order.
C7_EveryLogFileSkipped ==
    SkipsLogFiles(result) =>
        /\ \A i \in 1..Len(CallFiles) :
              IsLogFile(CallFiles[i]) =>
                  /\ CallFiles[i].rel \notin DOMAIN CallContents
                  /\ Len(SelectSeq(SubSeq(CallFiles, 1, i - 1), NotIncluded))
                         < SkippedDetailsLimit
                     <=> InDetails(CallFiles[i])
        /\ CallSummary.skipped_files >= Len(SelectSeq(CallFiles, IsLogFile))

\* C7 witness: a call with '*.log' has skipped more than 10 files.
C7_Witness ==
    /\ SkipsLogFiles(result)
    /\ CallSummary.skipped_files > SkippedDetailsLimit
    /\ \E i \in 1..Len(CallFiles) : IsLogFile(CallFiles[i]) /\ ~InDetails(CallFiles[i])

\* C8: a file no skip pattern matches is left out and recorded as skipped
\* with the 'too large' tag iff its size is strictly above max_file_size; a
\* readable file at or below the threshold is a key of file_contents under
\* its relative path; /data (10 bytes and 200MB) at the 100MB threshold gives
\* total_files = 1 and skipped_files = 1.
C8_TooLargeIffAboveThreshold ==
    (IsPrepare(result) /\ result.ret.success) =>
        /\ \A i \in 1..Len(CallFiles) :
              LET f == CallFiles[i]
                  tagged == \E k \in 1..Len(CallSkippedList) :
                                /\ CallSkippedList[k].path = FullPath(result.args[1], f.rel)
                                /\ CallSkippedList[k].tag = "too large"
              IN  (f.is_file /\ ~MatchedByAPattern(f, result.args[3])) =>
                      /\ tagged <=> f.size > result.args[2]
                      /\ tagged => f.rel \notin DOMAIN CallContents
                      /\ (f.read_ok /\ f.size <= result.args[2])
                         => f.rel \in DOMAIN CallContents
        /\ (result.args[1] = "/data" /\ result.args[2] = DefaultMaxFileSize)
           => /\ CallSummary.total_files = 1
              /\ CallSummary.skipped_files = 1
              /\ CallSummary.skipped_details[1].tag = "too large"

\* C8 witness: /data prepared with the threshold equal to the small file's
\* size: the file is stored, the 200MB file is skipped.
C8_Witness ==
    /\ IsPrepare(result)
    /\ result.ret.success
    /\ result.args[1] = "/data"
    /\ result.args[2] = 10
    /\ CallSummary.total_files = 1
    /\ CallSummary.skipped_files = 1

\* C9: skipped_files counts every file left out, skipped_details holds the
\* first 10 of them in visit order, and the call succeeds all the same.
C9_SkippedDetailsFirstTen ==
    (IsPrepare(result) /\ result.ret.success) =>
        /\ CallSummary.skipped_files = Len(CallLeftOut)
        /\ Len(CallSummary.skipped_details) =
               (IF CallSummary.skipped_files < 10 THEN CallSummary.skipped_files ELSE 10)
        /\ \A k \in 1..Len(CallSummary.skipped_details) :
               CallSummary.skipped_details[k].path =
                   FullPath(result.args[1], CallLeftOut[k].rel)

\* C9 witness: a successful call with more than 10 skipped files.
C9_Witness ==
    /\ IsPrepare(result)
    /\ result.ret.success
    /\ CallSummary.skipped_files > 10
    /\ Len(CallSummary.skipped_details) = 10

\* C10: a missing folder_path fails with 'Path not found', one that is not a
\* directory with 'Not a directory', and no failing call changes data_cache.
C10_FailedPrepareLeavesCache ==
    [][IsPrepare(result') =>
          /\ ~Exists(result'.args[1]) => IsFailure(result', "Path not found")
          /\ (Exists(result'.args[1]) /\ ~IsDir(result'.args[1]))
             => IsFailure(result', "Not a directory")
          /\ ~result'.ret.success => data_cache' = data_cache]_vars

\* C10 witness: a call has failed on an OSError raised inside the walk while
\* the cache holds entries.
C10_Witness ==
    /\ IsPrepare(result)
    /\ IsFailure(result, "OSError")
    /\ DOMAIN data_cache # {}

\* Whether the last call's loop has a skipped line for file f.
InSkippedList(f) ==
    \E k \in 1..Len(CallSkippedList) :
        CallSkippedList[k].path = FullPath(result.args[1], f.rel)

\* C11: an OS error on one file of the folder, raised by stat or by the read,
\* never aborts prepare_local_folder: the call on a directory returns
\* success = true, inserts its cache entry, records the file as skipped and
\* stores every other readable file.
C11_FileErrorNeverAborts ==
    (IsPrepare(result) /\ IsDir(result.args[1])) =>
        /\ result.ret.success
        /\ result.ret.cache_id \in DOMAIN data_cache
        /\ \A i \in 1..Len(CallFiles) :
              LET f == CallFiles[i]
              IN  (f.is_file /\ ~MatchedByAPattern(f, result.args[3])) =>
                      /\ (~f.stat_ok \/ ~f.read_ok) => InSkippedList(f)
                      /\ (f.stat_ok /\ f.read_ok /\ f.size <= result.args[2])
                         => f.rel \in DOMAIN CallContents

\* C12: every successful prepare_local_folder call gets a cache id no entry
\* of data_cache has yet and adds exactly one entry: data_cache grows by one
\* and no earlier entry is replaced.
C12_SuccessfulPrepareAddsOneEntry ==
    [][(IsPrepare(result') /\ result'.ret.success) =>
          /\ result'.ret.cache_id \notin DOMAIN data_cache
          /\ Cardinality(DOMAIN data_cache') = Cardinality(DOMAIN data_cache) + 1
          /\ \A cid \in DOMAIN data_cache : data_cache'[cid] = data_cache[cid]]_vars

-----------------------------------------------------------------------------
(* Properties of directory exploration (checked under SpecExplore).        *)

IsExplore(call) == call.op = "explore_directory"

Explored == IsExplore(result) /\ result.ret.success

Expanded(node) == "children" \in DOMAIN node

\* The names of every node of a returned tree.
RECURSIVE NamesIn(_)
NamesIn(node) ==
    {node.name} \cup
    (IF Expanded(node)
     THEN UNION {NamesIn(node.children[i]) : i \in 1..Len(node.children)}
     ELSE {})

\* Node describes path p, depth levels below the explored root: nothing
\* below max_depth is there, and a directory at max_depth is the marker.
RECURSIVE CutAtMaxDepth(_, _, _)
CutAtMaxDepth(node, p, depth) ==
    /\ depth <= result.args[2]
    /\ (depth = result.args[2] /\ ~is_file(p)) =>
           node = [type |-> "directory", name |-> path_name(p), truncated |-> TRUE]
    /\ Expanded(node) =>
           \A i \in 1..Len(node.children) :
               CutAtMaxDepth(node.children[i], p \o <<node.children[i].name>>, depth + 1)

\* C13: the tree explore_directory returns (max_depth >= 0) describes no
\* entry deeper than max_depth below the root, and every directory the walk
\* reaches at depth max_depth is a node with truncated = true and no
\* children; for max_depth = 1 on r (r/a/b/c.txt) the node of a is the
\* truncated marker and neither b nor c.txt appears.
C13_NothingBelowMaxDepth ==
    Explored =>
        /\ CutAtMaxDepth(result.ret.tree, result.args[1], 0)
        /\ (result.args[1] = << <<114>> >> /\ result.args[2] = 1 /\ << <<114>> >> \notin denied)
           => /\ \E i \in 1..Len(result.ret.tree.children) :
                     result.ret.tree.children[i] =
                         [type |-> "directory", name |-> <<97>>, truncated |-> TRUE]
              /\ <<98>> \notin NamesIn(result.ret.tree)
              /\ <<99, 46, 116, 120, 116>> \notin NamesIn(result.ret.tree)

\* C13 witness: r explored with max_depth = 1, its children listed.
C13_Witness ==
    /\ Explored
    /\ result.args[1] = << <<114>> >>
    /\ result.args[2] = 1
    /\ Expanded(result.ret.tree)
    /\ \E i \in 1..Len(result.ret.tree.children) :
           /\ result.ret.tree.children[i].name = <<97>>
           /\ "truncated" \in DOMAIN result.ret.tree.children[i]

\* Every regular file of the returned tree is a file node.
RECURSIVE FilesInFull(_, _)
FilesInFull(node, p) ==
    /\ is_file(p) =>
           /\ node.type = "file"
           /\ DOMAIN node = {"type", "name", "size", "modified", "extension"}
    /\ ~is_file(p) => node.type = "directory"
    /\ Expanded(node) =>
           \A i \in 1..Len(node.children) :
               FilesInFull(node.children[i], p \o <<node.children[i].name>>)

\* C14: every regular file explore_directory reaches is returned as a file
\* node with name, size, modified and extension, at any depth, depth
\* max_depth included; only directories are truncated markers.
C14_FilesDescribedInFull ==
    Explored => FilesInFull(result.ret.tree, result.args[1])

\* The entries of directory p.
EntriesOf(p) == {iterdir(p)[i] : i \in 1..Len(iterdir(p))}

RECURSIVE ChildrenListed(_, _)
ChildrenListed(node, p) ==
    Expanded(node) =>
        /\ node.count = Len(node.children)
        /\ \A i, j \in 1..Len(node.children) :
               i < j => StrLess(node.children[i].name, node.children[j].name)
        /\ {node.children[i].name : i \in 1..Len(node.children)} =
               {path_name(c) : c \in {e \in EntriesOf(p) :
                                        result.args[3] \/ path_name(e)[1] # Dot}}
        /\ \A i \in 1..Len(node.children) :
               ChildrenListed(node.children[i], p \o <<node.children[i].name>>)

\* C15: in every expanded directory node the children are in ascending name
\* order, count is their number, and an entry whose name starts with '.' is
\* among them iff include_hidden is true.
C15_ChildrenSortedCountedFiltered ==
    Explored => ChildrenListed(result.ret.tree, result.args[1])

\* C15 witness: r listed with its hidden entry, four levels deep.
C15_Witness ==
    /\ Explored
    /\ result.args = << << <<114>> >>, 3, TRUE >>
    /\ Expanded(result.ret.tree)
    /\ result.ret.tree.count = 5
    /\ result.ret.tree.children[1].name = <<46, 104>>
    /\ result.ret.tree.children[2].name = <<66>>

\* The tree explore_tree builds when every listing succeeds, with the
\* expanded directories of denied replaced by the error node.
RECURSIVE Graft(_, _)
Graft(node, p) ==
    IF ~Expanded(node) THEN node
    ELSE IF p \in denied
    THEN [type |-> "directory", name |-> node.name, error |-> "Permission denied"]
    ELSE [node EXCEPT !.children =
              [i \in 1..Len(node.children) |->
                  Graft(node.children[i], p \o <<node.children[i].name>>)]]

\* C16: a directory whose listing raises PermissionError is returned as a
\* directory node with the error marker and no children, the call returns
\* success = true, and every other node is what it is without the error.
C16_PermissionErrorIsLocal ==
    (IsExplore(result) /\ path_exists(result.args[1])) =>
        /\ result.ret.success
        /\ result.ret.tree =
               Graft(explore_tree(result.args[1], 0, result.args[2], result.args[3], {}),
                     result.args[1])

\* C16 witness: r explored with r/p unlistable: p is the error node and its
\* sibling a is expanded.
C16_Witness ==
    /\ Explored
    /\ result.args = << << <<114>> >>, 3, FALSE >>
    /\ denied = {<< <<114>>, <<112>> >>}
    /\ result.ret.tree.children[3] =
           [type |-> "directory", name |-> <<112>>, error |-> "Permission denied"]
    /\ Expanded(result.ret.tree.children[2])
    /\ result.ret.tree.children[2].count = 1

-----------------------------------------------------------------------------
(* Properties of read_credentials (checked under SpecCreds).               *)

IsRead(call) == call.op = "read_credentials"

\* The last call has used creds_path if it exists and else the first of
\* fallbacks that exists: it is the source_path of a successful call, a
\* readable one makes the call succeed, and the call fails with the
\* not-found error exactly when neither creds_path nor a fallback exists.
UsesFirstOf(fallbacks) ==
    LET chosen == IF result.args[1] \in DOMAIN home THEN result.args[1]
                  ELSE FirstExisting(fallbacks)
    IN  /\ chosen = <<>> <=> IsFailure(result, "Credentials file not found")
        /\ result.ret.success => result.ret.source_path = chosen
        /\ (chosen # <<>> /\ home[chosen].readable) => result.ret.success

\* C17 as stated: read_credentials uses creds_path if it exists and else the
\* first that exists of ~/.aws/credentials, ~/<basename>, ~/.aws/<basename>,
\* in that order; it fails with the not-found error only when none exists.
C17_HomeBasenameBeforeAwsBasename ==
    IsRead(result) =>
        UsesFirstOf(<< <<"~", ".aws", "credentials">>,
                       <<"~", result.args[1][Len(result.args[1])]>>,
                       <<"~", ".aws", result.args[1][Len(result.args[1])]>> >>)

\* C17 amended: read_credentials uses creds_path if it exists and else the
\* first that exists of ~/.aws/credentials, ~/.aws/<basename>, ~/<basename>,
\* in that order; it fails with the not-found error only when none exists.
C17_AwsBasenameBeforeHomeBasename ==
    IsRead(result) =>
        UsesFirstOf(<< <<"~", ".aws", "credentials">>,
                       <<"~", ".aws", result.args[1][Len(result.args[1])]>>,
                       <<"~", result.args[1][Len(result.args[1])]>> >>)

\* C17 witness: creds_path and ~/.aws/credentials are missing, ~/creds.env
\* and ~/.aws/creds.env both exist, and the call has read ~/.aws/creds.env.
C17_Witness ==
    /\ IsRead(result)
    /\ DOMAIN home = {<<"~", "creds.env">>, <<"~", ".aws", "creds.env">>}
    /\ result.ret.success
    /\ result.ret.source_path = <<"~", ".aws", "creds.env">>

\* C18: credentials_text is the file's own text, and the records handed to
\* the logger are the same for every file that differs from the one read in
\* its secret values only.
C18_LogIndependentOfSecretValues ==
    (IsRead(result) /\ result.ret.success) =>
        LET file == home[result.ret.source_path]
        IN  /\ result.ret.credentials_text = read_text(file)
            /\ \A v \in SecretValues :
                   result.log = LogRecords(result.ret.source_path,
                                           Render(file.pieces, <<v>>))

-----------------------------------------------------------------------------
(* Properties of the proxy (checked under SpecProxy).                      *)

IsCallTool(call) == call.op = "callTool"

\* What the step has forwarded.
Sent == SubSeq(net'.forwarded, Len(net.forwarded) + 1, Len(net'.forwarded))

\* C19: callTool dispatches by the longest registered prefix of the tool
\* name: 'remote_check_status' goes to remote as 'check_status',
\* 'local_explore_directory' to local as 'explore_directory', with the
\* caller's arguments; what the backend answers is returned as it is; a name
\* no registered prefix starts, such as 'unknown_prefix_x', fails with
\* UnknownTool and nothing is forwarded.
C19_DispatchByLongestPrefix ==
    [][IsCallTool(result') =>
          LET tool_name == result'.args[1]
              registered == {<<"l", "o", "c", "a", "l">>, <<"r", "e", "m", "o", "t", "e">>}
              starting == {s \in registered : StartsWith(tool_name, s \o <<"_">>)}
          IN  /\ tool_name = remote_check_status =>
                     /\ Len(Sent) = 1
                     /\ Sent[1].server = <<"r", "e", "m", "o", "t", "e">>
                     /\ Sent[1].tool = <<"c", "h", "e", "c", "k", "_",
                                         "s", "t", "a", "t", "u", "s">>
              /\ tool_name = local_explore_directory =>
                     /\ Len(Sent) = 1
                     /\ Sent[1].server = <<"l", "o", "c", "a", "l">>
                     /\ Sent[1].tool = <<"e", "x", "p", "l", "o", "r", "e", "_",
                                         "d", "i", "r", "e", "c", "t", "o", "r", "y">>
              /\ tool_name = unknown_prefix_x =>
                     /\ IsFailure(result', "UnknownTool")
                     /\ Sent = <<>>
              /\ starting = {} <=> IsFailure(result', "UnknownTool")
              /\ starting = {} <=> Sent = <<>>
              /\ Sent # <<>> =>
                     /\ Sent[1].server \in starting
                     /\ \A s \in starting : Len(s) <= Len(Sent[1].server)
                     /\ tool_name = Sent[1].server \o <<"_">> \o Sent[1].tool
                     /\ Sent[1].arguments = result'.args[2]
                     /\ Sent[1].reached => result'.ret = Sent[1].response]_vars

\* C19 witness: 'remote_check_status' was forwarded to remote after a call
\* went to local, and the caller has the backend's answer.
C19_Witness ==
    /\ IsCallTool(result)
    /\ result.args[1] = remote_check_status
    /\ Len(net.forwarded) = 2
    /\ net.forwarded[1].server = <<"l", "o", "c", "a", "l">>
    /\ net.forwarded[2].server = <<"r", "e", "m", "o", "t", "e">>
    /\ net.forwarded[2].reached
    /\ result.ret = net.forwarded[2].response

-----------------------------------------------------------------------------
(* Further properties of the cache (Spec) and of folder preparation        *)
(* (SpecPrepare).                                                          *)

\* C27: an id leaves data_cache only in a clear_cache with that id, in a
\* get_cached_data on that id that reports it expired, or in a clear_cache
\* without id (null) that finds it expired; time passing removes nothing,
\* and a successful get_cached_data leaves data_cache as it is.
C27_EntryLeavesOnlyByThreeSteps ==
    [][/\ \A id \in DOMAIN data_cache \ DOMAIN data_cache' :
             \/ IsClear(result') /\ result'.args = <<id>>
             \/ /\ IsGet(result')
                /\ result'.args = <<id>>
                /\ IsFailure(result', "Cache expired")
             \/ /\ IsClear(result')
                /\ result'.args = <<None>>
                /\ IsExpired(Age(data_cache[id].timestamp))
       /\ (IsGet(result') /\ result'.ret.success) => data_cache' = data_cache
       /\ now' # now => data_cache' = data_cache]_vars

\* The number of lines of the loop's skipped_files list that name file f.
SkippedLines(f) ==
    Cardinality({k \in 1..Len(CallSkippedList) :
                    CallSkippedList[k].path = FullPath(result.args[1], f.rel)})

IsRegularFile(f) == f.is_file

RECURSIVE SizeOfIncluded(_, _)
SizeOfIncluded(files, i) ==
    IF i > Len(files) THEN 0
    ELSE (IF files[i].is_file /\ files[i].rel \in DOMAIN CallContents
          THEN files[i].size ELSE 0)
         + SizeOfIncluded(files, i + 1)

\* C28: in a successful prepare_local_folder every regular file under the
\* root is a key of file_contents or one line of the skipped list, never
\* both and never neither; total_files + skipped_files is the number of
\* regular files; a file that matches a skip pattern and is above
\* max_file_size is one line, the pattern one; total_size is the sum of the
\* sizes of the files in file_contents.
C28_EveryFileAccountedOnce ==
    (IsPrepare(result) /\ result.ret.success) =>
        /\ \A i \in 1..Len(CallFiles) :
              LET f == CallFiles[i]
              IN  f.is_file =>
                      /\ IF f.rel \in DOMAIN CallContents
                         THEN SkippedLines(f) = 0 ELSE SkippedLines(f) = 1
                      /\ (MatchedByAPattern(f, result.args[3]) /\ f.size > result.args[2])
                         => \A k \in 1..Len(CallSkippedList) :
                                CallSkippedList[k].path = FullPath(result.args[1], f.rel)
                                => CallSkippedList[k].tag = "pattern"
        /\ CallSummary.total_files + CallSummary.skipped_files
               = Len(SelectSeq(CallFiles, IsRegularFile))
        /\ CallSummary.total_files = Cardinality(DOMAIN CallContents)
        /\ CallSummary.total_size = SizeOfIncluded(CallFiles, 1)

\* C28 witness: /logs prepared with '*.log' skipped and a threshold of 10
\* bytes: 11.log matches the pattern and is too large, noread cannot be
\* read, k.txt is stored.
C28_Witness ==
    /\ IsPrepare(result)
    /\ result.ret.success
    /\ result.args = <<"/logs", 10, <<StarDotLog>>>>
    /\ CallSummary.total_files = 1
    /\ CallSummary.skipped_files = NumLogFiles + 2
    /\ CallSummary.total_size = 2

\* C29: a clear_cache with a cache_id other than null removes no entry
\* whose id differs from cache_id; with the empty string it fails with
\* 'Cache ID not found' and leaves data_cache unchanged.
C29_ClearWithIdRemovesNoOtherEntry ==
    [][(IsClear(result') /\ result'.args # <<None>>) =>
          /\ \A id \in DOMAIN data_cache \ DOMAIN data_cache' : id = result'.args[1]
          /\ result'.args = <<EmptyString>> =>
                 /\ IsFailure(result', "Cache ID not found")
                 /\ data_cache' = data_cache]_vars

-----------------------------------------------------------------------------
(* The tools of the local server.                                          *)

LocalTools ==
    {"prepare_local_folder", "get_cached_data", "clear_cache", "explore_directory",
     "read_local_file", "validate_dataset", "read_credentials",
     "save_download_locally", "create_config_template"}

IsEnvelope(ret) ==
    /\ "success" \in DOMAIN ret
    /\ ret.success \in BOOLEAN
    /\ "error" \in DOMAIN ret <=> ~ret.success

\* C21: every call of every tool of the local server hands back a dict
\* with a boolean "success" that has "error" exactly when success is false;
\* no tool hands back None or lets an exception out.
C21_EveryToolReturnsAnEnvelope ==
    result.op \in LocalTools => IsEnvelope(result.ret)

-----------------------------------------------------------------------------
(* The base64 round trip.                                                  *)

IsSave(call) == call.op = "save_download_locally"

\* The bytes of the file of a prepared folder that file_contents names key.
BytesOf(folder_path, key) ==
    LET files == rglob(folder_path)
    IN  files[CHOOSE i \in 1..Len(files) : files[i].rel = key].content

\* The files whose stored string is content_b64: the entry and the key.
StoredAs(cache, content_b64) ==
    UNION {{<<i, k>> : k \in {k \in DOMAIN cache[i].file_contents :
                                  cache[i].file_contents[k] = content_b64}} :
              i \in DOMAIN cache}

DecodesToItsFile(cache) ==
    \A i \in DOMAIN cache : \A k \in DOMAIN cache[i].file_contents :
        /\ b64decode(cache[i].file_contents[k]).ok
        /\ b64decode(cache[i].file_contents[k]).bytes = BytesOf(cache[i].source_path, k)

SavesItsFile ==
    \A f \in StoredAs(data_cache, result'.args[1]) :
        LET C == BytesOf(data_cache[f[1]].source_path, f[2])
        IN  IF result'.ret.success
            THEN /\ disk'.files[result'.args[2]].bytes = C
                 /\ result'.ret.size = Len(C)
            ELSE result'.ret.error.kind # "binascii.Error"

\* C22: the string file_contents stores for an included file decodes to
\* exactly the file's bytes C, and save_download_locally given that string
\* writes exactly C to target_path and reports size = len(C); it never
\* fails on decoding it.
C22_Base64RoundTrip ==
    [][/\ data_cache' # data_cache => DecodesToItsFile(data_cache')
       /\ IsSave(result') => SavesItsFile]_vars

\* A file of two bytes (one '=' of padding) and a file of ten bytes (two)
\* are in the cache, and the latter has just been saved.
C22_Witness ==
    /\ IsSave(result) /\ result.ret.success
    /\ result.ret.size = 10
    /\ disk.files[result.args[2]].bytes = <<11, 12, 13, 14, 15, 16, 17, 18, 19, 20>>
    /\ \E i \in DOMAIN data_cache :
           /\ << <<"1", "0">> \o DotLog >> \in DOMAIN data_cache[i].file_contents
           /\ data_cache[i].file_contents[<< <<"k", ".", "t", "x", "t">> >>][4] = 64

-----------------------------------------------------------------------------
(* read_local_file.                                                        *)

IsReadFile(call) == call.op = "read_local_file"

Undecodable(file_path, encoding) ==
    /\ disk_is_file(file_path)
    /\ disk.files[file_path].readable
    /\ ~decode(disk.files[file_path].bytes, encoding).ok

\* C23: read_local_file with as_text=true on a file whose bytes the
\* encoding cannot decode succeeds with encoding 'base64' and the base64 of
\* the file's bytes as content; a missing path and a path that is no
\* regular file fail the call.
C23_UndecodableFallsBackToBase64 ==
    IsReadFile(result) =>
        LET file_path == result.args[1]
        IN  /\ result.args[2] /\ Undecodable(file_path, result.args[3]) =>
                /\ result.ret.success
                /\ result.ret.encoding = "base64"
                /\ result.ret.content = b64encode(disk.files[file_path].bytes)
            /\ ~disk_is_file(file_path) => IsFailure(result, IF disk_exists(file_path)
                                                             THEN "Not a file"
                                                             ELSE "File not found")

\* The lone byte c3, the start of a two-byte sequence, has been saved and
\* then read as UTF-8 text.
C23_Witness ==
    /\ IsReadFile(result)
    /\ result.args = <<OutFile, TRUE, "utf-8">>
    /\ disk_is_file(OutFile) /\ disk.files[OutFile].bytes = <<195>>
    /\ result.ret.encoding = "base64"

-----------------------------------------------------------------------------
(* MCPClient.                                                              *)

\* C30: call_tool and get_available_tools raise RuntimeError('Not connected
\* to MCP server') whenever no connect() of the object has succeeded, before
\* any connect() and after one that failed, and a call reaches the fastmcp
\* Client only after a connect() that succeeded.
C30_NotConnectedUntilConnectSucceeds ==
    [][/\ result'.op \in {"call_tool", "get_available_tools"} /\ ~client.established
           => result'.ret = Raises("Not connected to MCP server")
       /\ client'.sent # client.sent => client.established]_vars

-----------------------------------------------------------------------------
(* Where cache entries come from.                                          *)

CacheFreeTools ==
    {"explore_directory", "read_local_file", "validate_dataset", "read_credentials",
     "save_download_locally", "create_config_template"}

\* C26: every id in data_cache was returned by an earlier successful
\* prepare_local_folder; explore_directory, read_local_file,
\* validate_dataset, read_credentials, save_download_locally and
\* create_config_template leave data_cache unchanged, and get_cached_data
\* and clear_cache add no entry.
C26_OnlyPrepareAddsEntries ==
    [][/\ DOMAIN data_cache' \subseteq issued'
       /\ result'.op \in CacheFreeTools => data_cache' = data_cache
       /\ result'.op \in {"get_cached_data", "clear_cache"} =>
              DOMAIN data_cache' \subseteq DOMAIN data_cache]_vars

\* With an entry in the cache, a file has been saved and an unknown id
\* looked up.
C26_Witness ==
    /\ result.op = "get_cached_data"
    /\ result.args[1] = UnknownId
    /\ DOMAIN data_cache # {}
    /\ disk_is_file(NestedOutFile)

-----------------------------------------------------------------------------
(* Concurrent calls on the event loop.                                     *)

\* The entry holds its three fields and the file_contents of a walk of its
\* folder that went through every file and did not raise.
Complete(entry) ==
    LET walk == ReadFolder(entry.source_path, DefaultMaxFileSize, <<>>)
    IN  /\ {"folder_structure", "file_contents", "timestamp"} \subseteq DOMAIN entry
        /\ ~walk.raised
        /\ entry.file_contents = walk.file_contents
        /\ entry.folder_structure = analyze_folder(entry.source_path)

\* C24: however the loop interleaves prepare_local_folder, get_cached_data
\* and clear_cache calls, data_cache never holds an entry that lacks
\* folder_structure, file_contents or timestamp or whose file_contents
\* comes from a walk that has not finished or that failed, and a
\* get_cached_data that succeeds hands back a complete entry.
C24_EntriesVisibleOnlyComplete ==
    /\ \A cid \in DOMAIN data_cache : Complete(data_cache[cid])
    /\ result.op = "get_cached_data" /\ result.ret.success =>
           \E folder_path \in Paths :
               LET walk == ReadFolder(folder_path, DefaultMaxFileSize, <<>>)
               IN  /\ ~walk.raised
                   /\ result.ret.file_contents = walk.file_contents
                   /\ result.ret.folder_structure = analyze_folder(folder_path)

\* A get_cached_data has returned an entry that was stored while the get
\* was waiting for the loop, and the walk of /locked, which fails, is in
\* progress for the other client.
C24_Witness ==
    /\ result.op = "get_cached_data" /\ result.ret.success
    /\ loop.last_raced
    /\ \E c \in Clients : /\ loop.tasks[c].op = "prepare_local_folder"
                          /\ loop.tasks[c].folder_path = "/locked"

IsSweep(t) == t.op = "clear_cache" /\ ~Truthy(t.cache_id)

\* The step taken is the `del data_cache[cid]` of c's sweep.
SweepDeletes(c) ==
    /\ IsSweep(loop.tasks[c])
    /\ loop.tasks[c].pc = "del"
    /\ loop'.tasks[c].i = loop.tasks[c].i + 1

\* C25: a sweep never deletes an entry other than the one whose age it
\* tested: between the age test and the del of an id no other call stores
\* an entry under that id, so an entry stored afresh under the id of an
\* expired one is not deleted on the old timestamp and stays retrievable.
C25_SweepDeletesWhatItTested ==
    [][\A c \in Clients : SweepDeletes(c) =>
           LET item == loop.tasks[c].items[loop.tasks[c].i]
           IN  /\ item.cid \in DOMAIN data_cache
               /\ data_cache[item.cid] = item.cached
               /\ IsExpired(Age(data_cache[item.cid].timestamp))]_vars

\* A sweep that was waiting while an entry was stored over an expired one
\* under the same id has tested every entry, and the fresh entry is there.
C25_Witness ==
    \E c \in Clients :
        /\ IsSweep(loop.tasks[c])
        /\ loop.tasks[c].raced
        /\ loop.tasks[c].pc = "return"
        /\ \E cid \in loop.reused :
               /\ cid \in DOMAIN data_cache
               /\ ~IsExpired(Age(data_cache[cid].timestamp))
               /\ \E k \in 1..Len(loop.tasks[c].items) : loop.tasks[c].items[k].cid = cid

====
